---- MODULE Spec2Model ----
(***************************************************************************)
(* A model of the crypto data collection core: the symbol mapper, the     *)
(* error policy (ErrorHandler / ConnectionErrorHandler), the fixed        *)
(* realtime collectors' collect loop and the SimpleOptimizedOrchestrator. *)
(* Each part has its own specification over the same variables; a part's  *)
(* specification leaves the other parts' variables at their initial value.*)
(***************************************************************************)
EXTENDS Integers, Sequences, FiniteSets, TLC

VARIABLES
    \* ---- symbol mapper calls (symbol_mapping.py)
    sm_pc,          \* "input" | "native" | "standard" | "list" | "direct"
    sm_exchange,    \* the exchange argument
    sm_symbol,      \* the canonical symbol handed to get_exchange_symbols
    sm_native,      \* the list get_exchange_symbols returned
    sm_standard,    \* what get_standard_symbol returned
    sm_list,        \* a list of symbols handed to get_exchange_symbols
    sm_mapped,      \* the list get_exchange_symbols returned for sm_list
    sm_raw,         \* a symbol handed to get_standard_symbol as it is
    \* ---- the error handler object (error_handler.py)
    eh_class,       \* "ErrorHandler" | "ConnectionErrorHandler"
    eh_max_retries, \* self.max_retries
    error_counts,   \* self.error_counts: dict key -> int
    recovery_handlers, \* self.recovery_handlers: dict key -> list of handlers
    \* ---- the last should_retry call
    sr_pc,          \* "idle" | "called"
    sr_error,       \* type(error).__name__
    sr_attempt,     \* the attempt argument
    sr_result,      \* the value returned
    \* ---- the last handle_error call
    he_pc,          \* "idle" | "returned"
    he_error,       \* type(error).__name__
    he_key,         \* error_key
    he_attempt,     \* error_counts[error_key] after the increment
    he_handlers,    \* number of handlers registered for the key at the call
    he_invoked,     \* number of handlers the call invoked
    he_success,     \* TRUE iff an invoked handler reported success
    he_result,      \* the value returned
    \* ---- wall clock (time.time(), datetime.now()), in seconds
    now,
    \* ---- one fixed realtime collector running collect() (the four
    \*      *_realtime_collector_fixed.py share the loop)
    c_via,          \* who starts it: "direct" | "adapter" | "orchestrator"
    c_arg,          \* the duration the starter was called with
    c_ctor,         \* the orchestrator's constructor duration_seconds
    c_pc,           \* position inside collect()
    c_duration,     \* collect's duration_seconds parameter
    c_start_time,   \* start_time = time.time()
    c_ws,           \* TRUE iff ws is an open connection
    c_wake,         \* when the pending asyncio.sleep(self.retry_delay) ends
    c_stats,        \* self.stats
    c_exchange,     \* which fixed collector it is: "binance" | "gate"
    c_sent,         \* the subscriptions sent on the current connection
    \* ---- the SimpleOptimizedOrchestrator and the tasks it spawns
    o_ctor,         \* the constructor's duration_seconds
    o_arg,          \* start_collection's duration_seconds argument
    o_duration,     \* self.duration_seconds
    o_running,      \* self.running
    o_start_time,   \* self.start_time
    o_pc,           \* position of the coroutine running start_collection
    o_wake,         \* when the monitor loop's asyncio.sleep(10) ends
    o_signalled,    \* TRUE once signal_handler has run
    o_failed_found, \* len(failed_tasks) of the last _check_failed_tasks
    tasks,          \* self.tasks: the state of every spawned task
    \* ---- one BinanceWebSocketClient running BaseWebSocketClient.run()
    w_pc,           \* position inside run() / connect() / listen()
    is_connected,   \* self.is_connected
    w_open,         \* TRUE iff self.websocket is an open connection
    w_attempts,     \* number of websockets.connect calls made so far
    w_failed,       \* number of them that raised
    w_result,       \* the exception run() ended with, "" if none
    w_frame,        \* number of frames listen() has received so far
    w_faults,       \* consecutive frames of this connection that raised
    w_pending,      \* frames whose spawned _notify_handlers task has not run
    w_log,          \* the events handed to the handlers, in delivery order
    \* ---- one realtime collector of the CollectorFactory running collect()
    f_class,        \* the registered collector class
    f_pc,           \* position inside collect() / collect_data()
    f_duration,     \* duration_seconds
    f_start,        \* start = time.time()
    f_open,         \* TRUE iff the transport of ws is open
    f_attempts,     \* number of websockets.connect calls made so far
    f_wake,         \* when the pending wait_for(ws.recv(), timeout) expires
    f_errors,       \* self.stats["errors"]
    f_noticed,      \* TRUE once a ws.recv() has raised on the closed transport
    \* ---- one frame handed to one frame handler
    h_pc,           \* "input" | "handled" | "again"
    h_handler,      \* the class whose handler gets the frame
    h_frame,        \* the frame: its kind and the fields it carries
    h_out,          \* the events the handler stored and what it counted
    h_again,        \* the handler's result on its own order book snapshot
    \* ---- the delay configuration of the error handler object
    eh_base_delay,  \* self.base_delay
    eh_max_delay,   \* self.max_delay
    eh_backoff_factor, \* self.backoff_factor
    he_delay,       \* the delay handle_error computed before the jitter, 0 if none
    he_exhausted,   \* history: the keys should_retry refused since the last reset
    \* ---- the last get_retry_delay call, and the call for the next attempt
    gd_pc,          \* "idle" | "called" | "next"
    gd_error,       \* type(error).__name__
    gd_attempt,     \* the attempt argument of the first call
    gd_delay,       \* its delay before the jitter is added
    gd_jitter,      \* the jitter added to it, in tenths of a second
    gd_next,        \* the delay before the jitter for attempt + 1
    \* ---- one BaseCollector and the MonitoringService of the orchestrator
    bc_type,        \* self._collector_type.value
    bc_consecutive_errors, \* self._stats["consecutive_errors"]
    bc_last_activity, \* self._stats["last_activity"], NoneValue before start()
    bc_last_health_check, \* self._last_health_check, NoneValue until set
    bc_is_healthy,  \* self._is_healthy
    bc_result,      \* what the last is_healthy() returned: "none" | "true" | "false"
    hl_pc,          \* the call made last: "idle" | "checked" | "reported"
    ms_events,      \* MonitoringService._events: when recorded, and whether an error
    ms_status,      \* "status" of the last get_health_status(), "" if none
    \* ---- the CollectorFactory and its create_collector calls
    cf_enabled,     \* the exchanges EXCHANGE_CONFIGS has with "enabled": True
    cf_registry,    \* self._collector_registry, as the (exchange, type) pairs it has
    cf_pc,          \* "idle" | "returned"
    cf_exchange,    \* the exchange argument of the last create_collector
    cf_type,        \* its collector_type argument
    cf_ctor,        \* whether the collector constructor raised: "ok" | "raises"
    cf_result,      \* what the call did: "None" | "collector" | "raised"
    \* ---- the adapters' hand-over of a parsed event to the sink
    ad_pc,          \* position: "idle" | "handled"
    ad_adapter,     \* the handler that ran last
    ad_native,      \* the symbol of the frame it was given
    ad_sink,        \* the events handed to the sink, oldest first
    ad_translations, \* get_standard_symbol calls made by the last handler run
    \* ---- one _connect_with_retry() call of a fixed realtime collector
    cr_pc,          \* "idle" | "test" | "connect" | "returned"
    cr_collector,   \* the collector: binance | bybit | okx | gate
    cr_max_retries, \* self.max_retries
    cr_attempt,     \* the loop variable attempt
    cr_waits,       \* the asyncio.sleep calls awaited so far
    cr_result,      \* the value returned: "" | "None" | "ws"
    \* ---- the lifecycle of one CollectorAdapter (its BaseCollector part)
    lc_status,      \* self._status.value
    lc_stats,       \* self._stats: the four counters
    lc_pc,          \* the call that returned last
    lc_collecting,  \* TRUE while the wrapped collect coroutine is in progress
    lc_via,         \* who awaits it: "start" | "direct" | ""
    lc_result,      \* what initialize() returned: "" | "true" | "false"
    \* ---- BinanceRealtimeCollector handling frames against its sink
    sk_connected,   \* TRUE iff the sink's self.client is set
    sk_frame,       \* the frame handled last
    sk_frames,      \* the frames handled so far
    sk_stored,      \* the collector's stats["stored"]
    sk_errors,      \* the collector's stats["errors"]
    sk_true         \* history: the store_message calls that returned True

symVars == <<sm_pc, sm_exchange, sm_symbol, sm_native, sm_standard, sm_list,
             sm_mapped, sm_raw>>
ehConfig == <<eh_class, eh_max_retries, eh_base_delay, eh_max_delay,
              eh_backoff_factor>>
ehVars  == <<ehConfig, error_counts, recovery_handlers>>
srVars  == <<sr_pc, sr_error, sr_attempt, sr_result>>
heVars  == <<he_pc, he_error, he_key, he_attempt, he_handlers, he_invoked,
             he_success, he_result, he_delay, he_exhausted>>
subVars == <<c_exchange, c_sent>>
colVars == <<c_via, c_arg, c_ctor, c_pc, c_duration, c_start_time, c_ws,
             c_wake, c_stats, subVars>>
orchVars == <<o_ctor, o_arg, o_duration, o_running, o_start_time, o_pc,
              o_wake, o_signalled, o_failed_found, tasks>>
cliVars == <<w_pc, is_connected, w_open, w_attempts, w_failed, w_result,
             w_frame, w_faults, w_pending, w_log>>
facVars == <<f_class, f_pc, f_duration, f_start, f_open, f_attempts, f_wake,
             f_errors, f_noticed>>
frmVars == <<h_pc, h_handler, h_frame, h_out, h_again>>
gdVars == <<gd_pc, gd_error, gd_attempt, gd_delay, gd_jitter, gd_next>>
bcVars == <<bc_type, bc_consecutive_errors, bc_last_activity,
      bc_last_health_check, bc_is_healthy, bc_result, hl_pc, ms_events,
      ms_status>>
cfVars == <<cf_enabled, cf_registry, cf_pc, cf_exchange, cf_type, cf_ctor,
      cf_result>>
adVars == <<ad_pc, ad_adapter, ad_native, ad_sink, ad_translations>>
crVars == <<cr_pc, cr_collector, cr_max_retries, cr_attempt, cr_waits,
      cr_result>>
lcVars == <<lc_status, lc_stats, lc_pc, lc_collecting, lc_via, lc_result>>
skVars == <<sk_connected, sk_frame, sk_frames, sk_stored, sk_errors,
      sk_true>>
vars == <<symVars, ehVars, srVars, heVars, now, colVars, orchVars, cliVars,
      facVars, frmVars, gdVars, bcVars, cfVars, adVars, crVars, lcVars,
      skVars>>

\* What the actions of one part leave alone.
notSym ==
    <<ehVars, srVars, heVars, now, colVars, orchVars, cliVars, facVars,
      frmVars, gdVars, bcVars, cfVars, adVars, crVars, lcVars, skVars>>
notPolicy ==
    <<symVars, heVars, now, colVars, orchVars, cliVars, facVars, frmVars,
      gdVars, bcVars, cfVars, adVars, crVars, lcVars, skVars>>
notErr ==
    <<symVars, srVars, now, colVars, orchVars, cliVars, facVars, frmVars,
      gdVars, bcVars, cfVars, adVars, crVars, lcVars, skVars>>
notCol ==
    <<symVars, ehVars, srVars, heVars, orchVars, cliVars, facVars, frmVars,
      gdVars, bcVars, cfVars, adVars, crVars, lcVars, skVars>>
notOrch ==
    <<symVars, ehVars, srVars, heVars, colVars, cliVars, facVars, frmVars,
      gdVars, bcVars, cfVars, adVars, crVars, lcVars, skVars>>
notCli ==
    <<symVars, ehVars, srVars, heVars, now, colVars, orchVars, facVars,
      frmVars, gdVars, bcVars, cfVars, adVars, crVars, lcVars, skVars>>
notFac ==
    <<symVars, ehVars, srVars, heVars, colVars, orchVars, cliVars, frmVars,
      gdVars, bcVars, cfVars, adVars, crVars, lcVars, skVars>>
notFrm ==
    <<symVars, ehVars, srVars, heVars, now, colVars, orchVars, cliVars,
      facVars, gdVars, bcVars, cfVars, adVars, crVars, lcVars, skVars>>
notDelay ==
    <<symVars, ehVars, srVars, heVars, now, colVars, orchVars, cliVars,
      facVars, frmVars, bcVars, cfVars, adVars, crVars, lcVars, skVars>>
notHealth ==
    <<symVars, ehVars, srVars, heVars, colVars, orchVars, cliVars, facVars,
      frmVars, gdVars, cfVars, adVars, crVars, lcVars, skVars>>
notCreate ==
    <<symVars, ehVars, srVars, heVars, now, colVars, orchVars, cliVars,
      facVars, frmVars, gdVars, bcVars, adVars, crVars, lcVars, skVars>>
notAdapter ==
    <<symVars, ehVars, srVars, heVars, now, colVars, orchVars, cliVars,
      facVars, frmVars, gdVars, bcVars, cfVars, crVars, lcVars, skVars>>
notConnect ==
    <<symVars, ehVars, srVars, heVars, now, colVars, orchVars, cliVars,
      facVars, frmVars, gdVars, bcVars, cfVars, adVars, lcVars, skVars>>
notLife ==
    <<symVars, ehVars, srVars, heVars, now, colVars, orchVars, cliVars,
      facVars, frmVars, gdVars, bcVars, cfVars, adVars, crVars, skVars>>
notSink ==
    <<symVars, ehVars, srVars, heVars, now, colVars, orchVars, cliVars,
      facVars, frmVars, gdVars, bcVars, cfVars, adVars, crVars, lcVars>>

Range(s) == {s[i] : i \in 1..Len(s)}
Min(a, b) == IF a <= b THEN a ELSE b

(***************************************************************************)
(* Python dicts as association lists <<key, value>> in insertion order.   *)
(* A dict display or comprehension that meets a key twice keeps the LAST  *)
(* value, so a lookup scans from the end.                                  *)
(***************************************************************************)
RECURSIVE DictGet(_, _, _)
DictGet(pairs, key, default) ==
    IF pairs = <<>> THEN default
    ELSE LET last == pairs[Len(pairs)] IN
         IF last[1] = key THEN last[2]
         ELSE DictGet(SubSeq(pairs, 1, Len(pairs) - 1), key, default)

DictHas(pairs, key) == \E i \in 1..Len(pairs) : pairs[i][1] = key

\* The collector before anything starts it.
ColQuiet ==
    /\ c_via = "direct" /\ c_arg = 0 /\ c_ctor = 0
    /\ c_pc = "idle" /\ c_duration = 0 /\ c_start_time = 0
    /\ c_ws = FALSE /\ c_wake = 0
    /\ c_stats = [stored |-> 0, errors |-> 0, reconnects |-> 0]
    /\ c_exchange = "binance" /\ c_sent = {}
ColIdle == now = 0 /\ ColQuiet

\* No orchestrator constructed.
OrchIdle ==
    /\ o_ctor = 0 /\ o_arg = 0 /\ o_duration = 0 /\ o_running = FALSE
    /\ o_start_time = 0 /\ o_pc = "none" /\ o_wake = 0
    /\ o_signalled = FALSE /\ o_failed_found = 0 /\ tasks = <<>>

\* No client constructed.
CliIdle ==
    /\ w_pc = "none" /\ is_connected = FALSE /\ w_open = FALSE
    /\ w_attempts = 0 /\ w_failed = 0 /\ w_result = "" /\ w_frame = 0
    /\ w_faults = 0 /\ w_pending = {} /\ w_log = <<>>

\* No factory collector started.
FacQuiet ==
    /\ f_class = "BinanceRealtimeCollector" /\ f_pc = "idle"
    /\ f_duration = 0 /\ f_start = 0 /\ f_open = FALSE /\ f_attempts = 0
    /\ f_wake = 0 /\ f_errors = 0 /\ f_noticed = FALSE

\* No frame handed to a handler.
FrmIdle ==
    /\ h_pc = "none" /\ h_handler = "" /\ h_frame = <<>> /\ h_out = <<>>
    /\ h_again = <<>>

\* No get_retry_delay call made.
GdIdle ==
    /\ gd_pc = "idle" /\ gd_error = "" /\ gd_attempt = 0 /\ gd_delay = 0
    /\ gd_jitter = 0 /\ gd_next = 0

\* No collector object and no monitoring service constructed.
BcIdle ==
    /\ bc_type = "realtime" /\ bc_consecutive_errors = 0
    /\ bc_last_activity = 0 /\ bc_last_health_check = 0
    /\ bc_is_healthy = TRUE /\ bc_result = "none" /\ hl_pc = "none"
    /\ ms_events = <<>> /\ ms_status = ""

\* No collector factory constructed.
CfIdle ==
    /\ cf_enabled = {} /\ cf_registry = {} /\ cf_pc = "none"
    /\ cf_exchange = "" /\ cf_type = "" /\ cf_ctor = "" /\ cf_result = ""

AdIdle ==
    /\ ad_pc = "idle" /\ ad_adapter = "" /\ ad_native = ""
    /\ ad_sink = <<>> /\ ad_translations = 0

CrIdle ==
    /\ cr_pc = "idle" /\ cr_collector = "" /\ cr_max_retries = 0
    /\ cr_attempt = 0 /\ cr_waits = 0 /\ cr_result = ""

LcIdle ==
    /\ lc_status = "stopped"
    /\ lc_stats = [messages_received |-> 0, messages_stored |-> 0,
                   errors |-> 0, consecutive_errors |-> 0]
    /\ lc_pc = "idle" /\ lc_collecting = FALSE /\ lc_via = ""
    /\ lc_result = ""

SkIdle ==
    /\ sk_connected = FALSE /\ sk_frame = <<>> /\ sk_frames = 0
    /\ sk_stored = 0 /\ sk_errors = 0 /\ sk_true = 0

\* Everything that is not run by the part under study.
RestIdle == CliIdle /\ FacQuiet /\ FrmIdle

(***************************************************************************)
(*                         SYMBOL MAPPER                                   *)
(***************************************************************************)
STANDARD_SYMBOLS ==
    <<"BTCUSDT", "BTCUSDC", "BTCUSD", "BTCTUSD", "BTCFDUSD", "BTCGUSD">>

EXCHANGE_SYMBOLS ==
    [binance |-> << <<"BTCUSDT", "BTCUSDT">>, <<"BTCUSDC", "BTCUSDC">>,
                    <<"BTCUSD", "BTCUSDT">>, <<"BTCTUSD", "BTCTUSD">>,
                    <<"BTCFDUSD", "BTCFDUSD">>, <<"BTCGUSD", "BTCUSDT">> >>,
     bybit   |-> << <<"BTCUSDT", "BTCUSDT">>, <<"BTCUSDC", "BTCUSDC">>,
                    <<"BTCUSD", "BTCUSDT">>, <<"BTCTUSD", "BTCTUSD">>,
                    <<"BTCFDUSD", "BTCUSDT">>, <<"BTCGUSD", "BTCUSDT">> >>,
     kraken  |-> << <<"BTCUSDT", "XBT/USDT">>, <<"BTCUSDC", "XBT/USDC">>,
                    <<"BTCUSD", "XBT/USD">>, <<"BTCTUSD", "XBT/USD">>,
                    <<"BTCFDUSD", "XBT/USD">>, <<"BTCGUSD", "XBT/USD">> >>,
     okx     |-> << <<"BTCUSDT", "BTC-USDT">>, <<"BTCUSDC", "BTC-USDC">>,
                    <<"BTCUSD", "BTC-USDT">>, <<"BTCTUSD", "BTC-USDT">>,
                    <<"BTCFDUSD", "BTC-USDT">>, <<"BTCGUSD", "BTC-USDT">> >>,
     gate    |-> << <<"BTCUSDT", "BTC_USDT">>, <<"BTCUSDC", "BTC_USDC">>,
                    <<"BTCUSD", "BTC_USD1">>, <<"BTCTUSD", "BTC_USDT">>,
                    <<"BTCFDUSD", "BTC_USDT">>, <<"BTCGUSD", "BTC_GUSD">> >>]

\* {v: k for k, v in EXCHANGE_SYMBOLS[e].items()}: the pairs swapped, in the
\* same order; a native symbol met twice keeps the last canonical symbol.
REVERSE_MAPPINGS ==
    [e \in DOMAIN EXCHANGE_SYMBOLS |->
        [i \in 1..Len(EXCHANGE_SYMBOLS[e]) |->
            <<EXCHANGE_SYMBOLS[e][i][2], EXCHANGE_SYMBOLS[e][i][1]>>]]

get_exchange_symbols_BlankUnmapped(exchange, standard_symbols) ==
    IF exchange \notin DOMAIN EXCHANGE_SYMBOLS THEN standard_symbols
    ELSE [i \in 1..Len(standard_symbols) |->
            DictGet(EXCHANGE_SYMBOLS[exchange], standard_symbols[i], "")]
get_exchange_symbols(exchange, standard_symbols) ==
    IF exchange \notin DOMAIN EXCHANGE_SYMBOLS THEN standard_symbols
    ELSE [i \in 1..Len(standard_symbols) |->
            IF DictHas(EXCHANGE_SYMBOLS[exchange], standard_symbols[i])
            THEN DictGet(EXCHANGE_SYMBOLS[exchange], standard_symbols[i], "")
            ELSE standard_symbols[i]]

get_standard_symbol(exchange, exchange_symbol) ==
    IF exchange \notin DOMAIN REVERSE_MAPPINGS THEN exchange_symbol
    ELSE DictGet(REVERSE_MAPPINGS[exchange], exchange_symbol, exchange_symbol)

\* The inputs of the mapper calls: every exchange of the table and one that
\* is not in it; every canonical symbol and one that is not mapped.
SymExchanges == DOMAIN EXCHANGE_SYMBOLS \cup {"coinbase"}
SymSymbols == Range(STANDARD_SYMBOLS) \cup {"ETHUSDT"}

\* Bound of the lists handed to get_exchange_symbols.
MaxList == 3

\* The symbols of those lists and of the direct get_standard_symbol calls:
\* canonical ones, native ones, and one no table has.
SymListSymbols == {"BTCUSDT", "XBT/USD", "ETHUSDT"}
SymRawSymbols == {"BTCUSDT", "BTCUSD", "BTC-USDT", "XBT/USD", "ETHUSDT"}
SymLists == UNION {[1..n -> SymListSymbols] : n \in 0..MaxList}

SymInit ==
    /\ sm_pc = "input"
    /\ sm_exchange \in SymExchanges
    /\ sm_symbol \in SymSymbols
    /\ sm_native = <<>>
    /\ sm_standard = ""
    /\ sm_list \in SymLists
    /\ sm_mapped = <<>>
    /\ sm_raw \in SymRawSymbols

\* n = get_exchange_symbols(E, [S])
SymToNative ==
    /\ sm_pc = "input"
    /\ sm_native' = get_exchange_symbols(sm_exchange, <<sm_symbol>>)
    /\ sm_pc' = "native"
    /\ UNCHANGED <<sm_exchange, sm_symbol, sm_standard, sm_list, sm_mapped,
                   sm_raw>>

\* get_standard_symbol(E, n[0])
SymToStandard ==
    /\ sm_pc = "native"
    /\ sm_standard' = get_standard_symbol(sm_exchange, sm_native[1])
    /\ sm_pc' = "standard"
    /\ UNCHANGED <<sm_exchange, sm_symbol, sm_native, sm_list, sm_mapped,
                   sm_raw>>

\* get_exchange_symbols(E, L) for a list L
SymListToNative ==
    /\ sm_pc = "input"
    /\ sm_mapped' = get_exchange_symbols(sm_exchange, sm_list)
    /\ sm_pc' = "list"
    /\ UNCHANGED <<sm_exchange, sm_symbol, sm_native, sm_standard, sm_list,
                   sm_raw>>

\* get_standard_symbol(E, X) for a symbol X as it comes
SymDirect ==
    /\ sm_pc = "input"
    /\ sm_standard' = get_standard_symbol(sm_exchange, sm_raw)
    /\ sm_pc' = "direct"
    /\ UNCHANGED <<sm_exchange, sm_symbol, sm_native, sm_list, sm_mapped,
                   sm_raw>>

SymIdle ==
    /\ sm_pc = "input" /\ sm_exchange = "binance" /\ sm_symbol = "BTCUSDT"
    /\ sm_native = <<>> /\ sm_standard = ""
    /\ sm_list = <<>> /\ sm_mapped = <<>> /\ sm_raw = ""

\* C1 (as claimed): round-trip law. For every exchange E of the table and
\* every canonical symbol S of STANDARD_SYMBOLS, get_standard_symbol(E, n)
\* = S, where n is the single element of get_exchange_symbols(E, [S]).
C1_RoundTrip ==
    (/\ sm_pc = "standard"
     /\ sm_exchange \in DOMAIN EXCHANGE_SYMBOLS
     /\ sm_symbol \in Range(STANDARD_SYMBOLS))
        => sm_standard = sm_symbol

\* C29: pass-through of what the tables do not have. For every exchange
\* name, in the table or not, get_exchange_symbols returns a list of the
\* length of its input that has, at the position of every symbol that is
\* not a key of the exchange's table, that symbol unchanged; and
\* get_standard_symbol returns unchanged every symbol that is not a key of
\* the exchange's reverse table. Neither call raises.
C29_UnmappedPassThrough ==
    /\ sm_pc = "list" =>
          /\ Len(sm_mapped) = Len(sm_list)
          /\ \A i \in 1..Len(sm_list) :
                (\/ sm_exchange \notin DOMAIN EXCHANGE_SYMBOLS
                 \/ ~DictHas(EXCHANGE_SYMBOLS[sm_exchange], sm_list[i]))
                    => sm_mapped[i] = sm_list[i]
    /\ sm_pc = "direct" =>
          ((\/ sm_exchange \notin DOMAIN REVERSE_MAPPINGS
            \/ ~DictHas(REVERSE_MAPPINGS[sm_exchange], sm_raw))
                => sm_standard = sm_raw)

\* get_exchange_symbols("kraken", ["BTCUSDT", "ETHUSDT"]) has translated the
\* first symbol and passed the second through.
C29_Witness ==
    /\ sm_pc = "list" /\ sm_exchange = "kraken"
    /\ sm_list = <<"BTCUSDT", "ETHUSDT">>
    /\ sm_mapped = <<"XBT/USDT", "ETHUSDT">>

(***************************************************************************)
(*                          ERROR POLICY                                   *)
(***************************************************************************)
non_retryable_errors ==
    {"ValueError", "TypeError", "AttributeError", "KeyError", "ImportError",
     "ModuleNotFoundError"}

connection_errors ==
    {"ConnectionError", "ConnectionRefusedError", "ConnectionResetError",
     "TimeoutError", "asyncio.TimeoutError"}

\* "if attempt > 5: return False"
ConsecutiveErrorLimit == 5

ErrorHandler_should_retry_NoCeiling(max_retries, error_name, attempt) ==
    IF error_name \in non_retryable_errors THEN FALSE
    ELSE IF attempt > ConsecutiveErrorLimit THEN FALSE
    ELSE TRUE

ErrorHandler_should_retry_RetriesAll(max_retries, error_name, attempt) ==
    IF attempt > max_retries THEN FALSE
    ELSE IF attempt > ConsecutiveErrorLimit THEN FALSE
    ELSE TRUE

ErrorHandler_should_retry_OnlyAtCeiling(max_retries, error_name, attempt) ==
    IF attempt = max_retries + 1 THEN FALSE
    ELSE IF error_name \in non_retryable_errors THEN FALSE
    ELSE IF attempt > ConsecutiveErrorLimit THEN FALSE
    ELSE TRUE

ErrorHandler_should_retry(max_retries, error_name, attempt) ==
    IF attempt > max_retries THEN FALSE
    ELSE IF error_name \in non_retryable_errors THEN FALSE
    ELSE IF attempt > ConsecutiveErrorLimit THEN FALSE
    ELSE TRUE

ConnectionErrorHandler_should_retry_Strict(max_retries, error_name, attempt) ==
    IF error_name \in connection_errors
    THEN attempt < max_retries * 2
    ELSE ErrorHandler_should_retry(max_retries, error_name, attempt)

ConnectionErrorHandler_should_retry(max_retries, error_name, attempt) ==
    IF error_name \in connection_errors
    THEN attempt <= max_retries * 2
    ELSE ErrorHandler_should_retry(max_retries, error_name, attempt)

\* get_retry_delay up to the jitter: the value of "delay" before the jitter
\* is added to it.
ErrorHandler_get_retry_delay(base_delay, backoff_factor, max_delay, attempt) ==
    Min(base_delay * (backoff_factor ^ (attempt - 1)), max_delay)

ConnectionErrorHandler_get_retry_delay_SingleBase(base_delay, backoff_factor, max_delay, error_name, attempt) ==
    IF error_name \in connection_errors
    THEN Min(base_delay * (backoff_factor ^ (attempt - 1)), max_delay * 2)
    ELSE ErrorHandler_get_retry_delay(base_delay, backoff_factor, max_delay,
                                      attempt)

ConnectionErrorHandler_get_retry_delay_NoCap(base_delay, backoff_factor, max_delay, error_name, attempt) ==
    IF error_name \in connection_errors
    THEN base_delay * 2 * (backoff_factor ^ (attempt - 1))
    ELSE ErrorHandler_get_retry_delay(base_delay, backoff_factor, max_delay,
                                      attempt)

ConnectionErrorHandler_get_retry_delay(base_delay, backoff_factor, max_delay, error_name, attempt) ==
    IF error_name \in connection_errors
    THEN Min(base_delay * 2 * (backoff_factor ^ (attempt - 1)), max_delay * 2)
    ELSE ErrorHandler_get_retry_delay(base_delay, backoff_factor, max_delay,
                                      attempt)

\* self.get_retry_delay(error, attempt): dispatch on the handler's class
get_retry_delay(class, base_delay, backoff_factor, max_delay, error_name, attempt) ==
    IF class = "ConnectionErrorHandler"
    THEN ConnectionErrorHandler_get_retry_delay(base_delay, backoff_factor,
                                                max_delay, error_name, attempt)
    ELSE ErrorHandler_get_retry_delay(base_delay, backoff_factor, max_delay,
                                      attempt)

\* The jitter added to the delay, in tenths of a second, at the two ends of
\* its range: random.uniform(0.1, 0.5) * delay, and random.uniform(0.5, 2.0)
\* for a connection error handled by a ConnectionErrorHandler.
JitterDraws(class, error_name, delay) ==
    IF class = "ConnectionErrorHandler" /\ error_name \in connection_errors
    THEN {5, 20}
    ELSE {delay, 5 * delay}

\* self.should_retry(error, attempt): dispatch on the handler's class
should_retry(class, max_retries, error_name, attempt) ==
    IF class = "ConnectionErrorHandler"
    THEN ConnectionErrorHandler_should_retry(max_retries, error_name, attempt)
    ELSE ErrorHandler_should_retry(max_retries, error_name, attempt)

HandlerClasses == {"ErrorHandler", "ConnectionErrorHandler"}

\* Bounds of the should_retry calls.
MaxMaxRetries == 6
MaxAttempt == 2 * MaxMaxRetries + 2

\* The exception classes the calls are made with: the programming errors,
\* the connection errors and two that are in neither list.
ErrorNames ==
    non_retryable_errors
        \cup {"ConnectionError", "ConnectionRefusedError",
              "ConnectionResetError", "TimeoutError"}
        \cup {"RuntimeError", "OSError"}

\* __init__(self, max_retries=3, base_delay=1.0, max_delay=60.0,
\* backoff_factor=2.0): the defaults of the delay configuration
DefaultBaseDelay == 1
DefaultMaxDelay == 60
DefaultBackoffFactor == 2
EhDelayDefaults ==
    /\ eh_base_delay = DefaultBaseDelay
    /\ eh_max_delay = DefaultMaxDelay
    /\ eh_backoff_factor = DefaultBackoffFactor

EhIdle ==
    /\ error_counts = [k \in {} |-> 0]
    /\ recovery_handlers = [k \in {} |-> <<>>]
    /\ EhDelayDefaults

\* error_handler = ConnectionErrorHandler(): the global instance, with the
\* constructor's default max_retries
DefaultMaxRetries == 3
EhDefault ==
    /\ eh_class = "ConnectionErrorHandler"
    /\ eh_max_retries = DefaultMaxRetries
    /\ EhIdle

SrIdle == sr_pc = "idle" /\ sr_error = "" /\ sr_attempt = 0 /\ sr_result = FALSE

HeIdle ==
    /\ he_pc = "idle" /\ he_error = "" /\ he_key = "" /\ he_attempt = 0
    /\ he_handlers = 0 /\ he_invoked = 0 /\ he_success = FALSE
    /\ he_result = FALSE /\ he_delay = 0 /\ he_exhausted = {}

PolicyInit ==
    /\ eh_class \in HandlerClasses
    /\ eh_max_retries \in 0..MaxMaxRetries
    /\ EhIdle
    /\ SrIdle

\* one call of should_retry(error, attempt) on the handler
ShouldRetryCall ==
    \E e \in ErrorNames, a \in 1..MaxAttempt :
        /\ sr_error' = e
        /\ sr_attempt' = a
        /\ sr_result' = should_retry(eh_class, eh_max_retries, e, a)
        /\ sr_pc' = "called"
        /\ UNCHANGED ehVars /\ UNCHANGED notPolicy

SpecPolicyInit ==
    PolicyInit /\ HeIdle /\ SymIdle /\ ColIdle /\ OrchIdle /\ RestIdle
    /\ GdIdle
    /\ BcIdle
    /\ CfIdle
    /\ AdIdle
    /\ CrIdle
    /\ LcIdle
    /\ SkIdle
SpecPolicyNext == ShouldRetryCall
SpecPolicy == SpecPolicyInit /\ [][SpecPolicyNext]_vars

\* The ceiling the policy documents for an error: 2 * max_retries for a
\* connection-class error, max_retries for any other.
Ceiling(max_retries, error_name) ==
    IF error_name \in connection_errors THEN 2 * max_retries ELSE max_retries

\* The class of an error as the handler object sees it: ErrorHandler knows
\* no connection class, ConnectionErrorHandler does.
IsConnectionClass(class, error_name) ==
    class = "ConnectionErrorHandler" /\ error_name \in connection_errors
IsGenericRetryable(class, error_name) ==
    /\ error_name \notin non_retryable_errors
    /\ ~IsConnectionClass(class, error_name)

C27_ProgrammingErrorsNotRetried ==
    (/\ sr_pc = "called"
     /\ sr_error \in {"ValueError", "TypeError", "AttributeError", "KeyError",
                      "ImportError", "ModuleNotFoundError"}
     /\ sr_attempt >= 1)
        => sr_result = FALSE

\* C27 witness: a KeyError asked about at its first attempt, well inside the
\* retry budget of a ConnectionErrorHandler.
C27_Witness ==
    /\ sr_pc = "called"
    /\ eh_class = "ConnectionErrorHandler"
    /\ eh_max_retries = 3
    /\ sr_error = "KeyError"
    /\ sr_attempt = 1
    /\ sr_result = FALSE

\* C3 (as claimed): retry budget. A retryable generic error gets
\* should_retry = true for every attempt 1..max_retries, and a
\* connection-class error for every attempt 1..2*max_retries.
C3_RetryBudget ==
    sr_pc = "called" =>
        /\ (IsGenericRetryable(eh_class, sr_error)
              /\ sr_attempt \in 1..eh_max_retries) => sr_result = TRUE
        /\ (IsConnectionClass(eh_class, sr_error)
              /\ sr_attempt \in 1..(2 * eh_max_retries)) => sr_result = TRUE

\* C3 (amended): a retryable generic error gets should_retry = true for
\* every attempt 1..min(max_retries, 5) and false for every later attempt;
\* a connection-class error, on a ConnectionErrorHandler, gets true for
\* every attempt 1..2*max_retries.
C3_RetryBudgetCapped ==
    sr_pc = "called" =>
        /\ IsGenericRetryable(eh_class, sr_error) =>
              (sr_result = TRUE <=>
                  sr_attempt \in 1..Min(eh_max_retries, ConsecutiveErrorLimit))
        /\ (IsConnectionClass(eh_class, sr_error)
              /\ sr_attempt \in 1..(2 * eh_max_retries)) => sr_result = TRUE

\* C3 witness: max_retries above 5, and a generic error refused at attempt
\* 6 although 6 <= max_retries.
C3_Witness ==
    /\ sr_pc = "called"
    /\ eh_max_retries = 6
    /\ sr_error = "RuntimeError"
    /\ sr_attempt = 6
    /\ sr_result = FALSE

(***************************************************************************)
(*            handle_error and the recovery handlers                       *)
(***************************************************************************)
\* Python dicts with a changing key set, as functions on their key set.
DictLookup(d, key, default) == IF key \in DOMAIN d THEN d[key] ELSE default
DictSet(d, key, value) ==
    [k \in DOMAIN d \cup {key} |-> IF k = key THEN value ELSE d[k]]

\* f"{context.get('collector', 'unknown')}_{error_type}"; a context without
\* a collector entry is modelled as the collector "".
ContextCollector(collector) == IF collector = "" THEN "unknown" ELSE collector
error_key(collector, error_type) ==
    ContextCollector(collector) \o "_" \o error_type

\* The outcome of one registered handler when it is awaited.
HandlerOutcomes == {"true", "false", "raise"}

\* "for handler in self.recovery_handlers[error_key]": the handlers are
\* awaited in order; the first that returns a true value ends the loop, one
\* that returns false or raises is passed over. The result is the number of
\* handlers awaited.
RECURSIVE RunHandlers_StopAtRaise(_, _)
RunHandlers_StopAtRaise(outcomes, i) ==
    IF i > Len(outcomes) THEN Len(outcomes)
    ELSE IF outcomes[i] \in {"true", "raise"} THEN i
    ELSE RunHandlers_StopAtRaise(outcomes, i + 1)

RECURSIVE RunHandlers(_, _)
RunHandlers(outcomes, i) ==
    IF i > Len(outcomes) THEN Len(outcomes)
    ELSE IF outcomes[i] = "true" THEN i
    ELSE RunHandlers(outcomes, i + 1)

\* Bounds of the handle_error runs: the handlers registered in all, the
\* errors handled in all, and max_retries.
MaxHandlers == 2
MaxErrors == 3
HeMaxRetries == 1

\* The collectors and exceptions handle_error is called with: a named
\* collector and a context without one; a generic, a programming and a
\* connection error.
HeCollectors == {"binance_realtime", ""}
HeErrors == {"RuntimeError", "ValueError", "ConnectionResetError"}

TotalErrors ==
    LET RECURSIVE Sum(_)
        Sum(K) == IF K = {} THEN 0
                  ELSE LET k == CHOOSE x \in K : TRUE
                       IN error_counts[k] + Sum(K \ {k})
    IN Sum(DOMAIN error_counts)

TotalHandlers ==
    LET RECURSIVE Sum(_)
        Sum(K) == IF K = {} THEN 0
                  ELSE LET k == CHOOSE x \in K : TRUE
                       IN Len(recovery_handlers[k]) + Sum(K \ {k})
    IN Sum(DOMAIN recovery_handlers)

\* add_recovery_handler(error_type, collector, handler)
add_recovery_handler ==
    \E c \in HeCollectors \ {""}, e \in HeErrors :
        LET key == c \o "_" \o e
            old == DictLookup(recovery_handlers, key, <<>>)
        IN /\ TotalHandlers < MaxHandlers
           /\ recovery_handlers' = DictSet(recovery_handlers, key,
                                           Append(old, Len(old) + 1))
           /\ UNCHANGED <<ehConfig, error_counts>>
           /\ UNCHANGED heVars /\ UNCHANGED notErr

\* handle_error(error, context), with the outcome of every handler that
\* would be awaited drawn beforehand.
handle_error ==
    \E c \in HeCollectors, e \in HeErrors :
        LET key == error_key(c, e)
            count == DictLookup(error_counts, key, 0) + 1
            handlers == DictLookup(recovery_handlers, key, <<>>)
            retry == should_retry(eh_class, eh_max_retries, e, count)
        IN /\ TotalErrors < MaxErrors
           /\ \E outcomes \in [1..Len(handlers) -> HandlerOutcomes] :
                LET n == IF retry THEN RunHandlers(outcomes, 1) ELSE 0
                    ok == n > 0 /\ outcomes[n] = "true"
                IN /\ error_counts' = DictSet(error_counts, key, count)
                   /\ he_pc' = "returned"
                   /\ he_error' = e
                   /\ he_key' = key
                   /\ he_attempt' = count
                   /\ he_handlers' = Len(handlers)
                   /\ he_invoked' = n
                   /\ he_success' = ok
                   /\ he_result' = ok
                   /\ he_delay' =
                        IF retry
                        THEN get_retry_delay(eh_class, eh_base_delay,
                                             eh_backoff_factor, eh_max_delay,
                                             e, count)
                        ELSE 0
                   /\ he_exhausted' = IF retry THEN he_exhausted
                                      ELSE he_exhausted \cup {key}
           /\ UNCHANGED <<ehConfig, recovery_handlers>>
           /\ UNCHANGED notErr

\* reset_error_counts()
reset_error_counts ==
    /\ error_counts' = [k \in {} |-> 0]
    /\ he_pc' = "idle"
    /\ he_exhausted' = {}
    /\ UNCHANGED <<he_error, he_key, he_attempt, he_handlers, he_invoked,
                   he_success, he_result, he_delay>>
    /\ UNCHANGED <<ehConfig, recovery_handlers>>
    /\ UNCHANGED notErr

SpecErrInit ==
    /\ eh_class \in HandlerClasses
    /\ eh_max_retries \in 0..HeMaxRetries
    /\ EhIdle /\ SrIdle /\ HeIdle /\ SymIdle /\ ColIdle /\ OrchIdle /\ RestIdle
    /\ GdIdle
    /\ BcIdle
    /\ CfIdle
    /\ AdIdle
    /\ CrIdle
    /\ LcIdle
    /\ SkIdle
SpecErrNext == add_recovery_handler \/ handle_error \/ reset_error_counts
SpecErr == SpecErrInit /\ [][SpecErrNext]_vars

\* C4 (as claimed): when a recovery handler registered for the key reports
\* success inside handle_error, handle_error returns true and error_counts
\* of that key is reset to zero.
C4_RecoveryResets ==
    (he_pc = "returned" /\ he_success)
        => (he_result = TRUE /\ error_counts[he_key] = 0)

\* C39: retry exhaustion is absorbing per key. Once handle_error has
\* returned false for a key because should_retry refused the attempt, every
\* later handle_error call for that key, up to the next reset_error_counts,
\* returns false, computes no delay (does not sleep) and invokes no recovery
\* handler.
C39_ExhaustionAbsorbing ==
    [][(he_pc' = "returned" /\ he_key' \in he_exhausted)
          => (/\ he_result' = FALSE
              /\ he_delay' = 0
              /\ he_invoked' = 0
              /\ he_key' \in he_exhausted')]_vars

\* C39 witness: a call for a key that has a recovery handler and was
\* refused before (this is at least its second refusal) returns false and
\* leaves the handler alone.
C39_Witness ==
    /\ he_pc = "returned" /\ he_key \in he_exhausted
    /\ he_handlers > 0 /\ he_invoked = 0
    /\ he_error = "RuntimeError"
    /\ he_attempt >= 2
    /\ ~should_retry(eh_class, eh_max_retries, he_error, he_attempt - 1)
    /\ he_result = FALSE

\* C5 (as claimed): for a key that has registered handlers, handle_error
\* never returns false without having invoked every handler registered for
\* that key, whatever the error class and attempt count.
C5_HandlersBeforeGivingUp ==
    (he_pc = "returned" /\ he_handlers > 0 /\ he_result = FALSE)
        => he_invoked = he_handlers

\* C5 (amended): for a key that has registered handlers, when should_retry
\* allows the attempt handle_error never returns false without having
\* invoked every handler of the key; when should_retry refuses it (a
\* non-retryable class, or an attempt past the ceiling) handle_error returns
\* false and invokes none.
C5_HandlersWhenRetryAllowed ==
    (he_pc = "returned" /\ he_handlers > 0) =>
        IF should_retry(eh_class, eh_max_retries, he_error, he_attempt)
        THEN he_result = FALSE => he_invoked = he_handlers
        ELSE he_result = FALSE /\ he_invoked = 0

\* C5 witness: two handlers registered, the attempt allowed, the first
\* handler raised, the second returned false, and handle_error gave up.
C5_Witness ==
    /\ he_pc = "returned"
    /\ he_handlers = 2
    /\ he_invoked = 2
    /\ he_result = FALSE
    /\ should_retry(eh_class, eh_max_retries, he_error, he_attempt)

(***************************************************************************)
(*                 get_retry_delay and the delays of handle_error          *)
(***************************************************************************)
\* Bounds of the delay configurations and of the attempt numbers.
MaxBaseDelay == 5
MaxBackoffFactor == 3
SmallMaxDelay == 7
MaxDelayAttempt == 6

\* The delay configurations: base_delay, backoff_factor >= 1 and max_delay,
\* a small cap that the first attempts reach and the constructor's default.
DelayConfigs ==
    [base_delay : 0..MaxBaseDelay, backoff_factor : 1..MaxBackoffFactor,
     max_delay : {SmallMaxDelay, DefaultMaxDelay}]

\* The errors get_retry_delay is called with: a generic one and two of the
\* connection class.
DelayErrors == {"RuntimeError", "ConnectionResetError", "TimeoutError"}

DelayConfigInit ==
    /\ eh_class \in HandlerClasses
    /\ eh_max_retries = DefaultMaxRetries
    /\ \E cfg \in DelayConfigs :
          /\ eh_base_delay = cfg.base_delay
          /\ eh_backoff_factor = cfg.backoff_factor
          /\ eh_max_delay = cfg.max_delay
    /\ error_counts = [k \in {} |-> 0]
    /\ recovery_handlers = [k \in {} |-> <<>>]

\* one call get_retry_delay(error, attempt) on the handler
GetRetryDelayCall ==
    \E e \in DelayErrors, a \in 1..MaxDelayAttempt :
        LET delay == get_retry_delay(eh_class, eh_base_delay,
                                     eh_backoff_factor, eh_max_delay, e, a)
        IN /\ gd_pc = "idle"
           /\ gd_error' = e
           /\ gd_attempt' = a
           /\ gd_delay' = delay
           /\ gd_jitter' \in JitterDraws(eh_class, e, delay)
           /\ gd_pc' = "called"
           /\ UNCHANGED gd_next

\* the call get_retry_delay(error, attempt + 1) for the same error
GetRetryDelayNext ==
    /\ gd_pc = "called"
    /\ gd_next' = get_retry_delay(eh_class, eh_base_delay, eh_backoff_factor,
                                  eh_max_delay, gd_error, gd_attempt + 1)
    /\ gd_pc' = "next"
    /\ UNCHANGED <<gd_error, gd_attempt, gd_delay, gd_jitter>>

DelayNext ==
    \/ GetRetryDelayCall /\ UNCHANGED notDelay
    \/ GetRetryDelayNext /\ UNCHANGED notDelay

SpecDelayInit ==
    /\ DelayConfigInit /\ GdIdle /\ SrIdle /\ HeIdle /\ SymIdle /\ ColIdle
    /\ OrchIdle /\ RestIdle
    /\ BcIdle
    /\ CfIdle
    /\ AdIdle
    /\ CrIdle
    /\ LcIdle
    /\ SkIdle
SpecDelay == SpecDelayInit /\ [][DelayNext]_vars

\* The cap the policy states for an error class: 2 * max_delay for a
\* connection-class error, max_delay for any other.
DelayCap(max_delay, error_name) ==
    IF error_name \in connection_errors THEN 2 * max_delay ELSE max_delay

\* C25: backoff monotonicity. For a fixed error class and a configuration
\* with backoff_factor >= 1, the delay get_retry_delay computes before the
\* jitter does not decrease from one attempt to the next and never exceeds
\* the cap of the class (max_delay, and 2 * max_delay for connection-class
\* errors).
C25_BackoffMonotone ==
    (gd_pc \in {"called", "next"} /\ eh_backoff_factor >= 1) =>
        /\ gd_delay <= DelayCap(eh_max_delay, gd_error)
        /\ gd_pc = "next" =>
              /\ gd_next >= gd_delay
              /\ gd_next <= DelayCap(eh_max_delay, gd_error)

\* C25 witness: a ConnectionErrorHandler with base 5, factor 2 and cap 7
\* asked about a connection reset at attempts 1 and 2: the delay grows from
\* 10 to the doubled cap 14.
C25_Witness ==
    /\ gd_pc = "next"
    /\ eh_class = "ConnectionErrorHandler"
    /\ eh_base_delay = 5 /\ eh_backoff_factor = 2
    /\ eh_max_delay = SmallMaxDelay
    /\ gd_error = "ConnectionResetError" /\ gd_attempt = 1
    /\ gd_delay = 10 /\ gd_next = 2 * SmallMaxDelay

\* handle_error on a handler of every delay configuration, with no recovery
\* handler registered.
SpecBackoffInit ==
    /\ DelayConfigInit /\ GdIdle /\ SrIdle /\ HeIdle /\ SymIdle /\ ColIdle
    /\ OrchIdle /\ RestIdle
    /\ BcIdle
    /\ CfIdle
    /\ AdIdle
    /\ CrIdle
    /\ LcIdle
    /\ SkIdle
SpecBackoff == SpecBackoffInit /\ [][handle_error]_vars

\* The scenario: base delay 5, factor 2, cap 60, and a transport reset
\* handled for the first, second or third time in a row on one key.
ResetScenario ==
    /\ he_pc = "returned"
    /\ eh_base_delay = 5 /\ eh_backoff_factor = 2
    /\ eh_max_delay = DefaultMaxDelay
    /\ he_error = "ConnectionResetError"
    /\ he_attempt \in 1..3

\* C26 (as claimed): with base delay 5, factor 2 and cap 60, three
\* consecutive transport resets on one key get the delays 5, 10 and 20
\* before the jitter, for attempts 1, 2 and 3.
C26_ResetDelays ==
    ResetScenario => he_delay = 5 * (2 ^ (he_attempt - 1))

\* C26 (amended): in that scenario the delays before the jitter are 5, 10
\* and 20 on an ErrorHandler and 10, 20 and 40 on a ConnectionErrorHandler,
\* which doubles the base delay for the errors of its connection class.
C26_ResetDelaysByClass ==
    ResetScenario =>
        he_delay = (IF eh_class = "ConnectionErrorHandler" THEN 10 ELSE 5)
                       * (2 ^ (he_attempt - 1))

\* C26 witness: the third transport reset in a row on the key of a
\* ConnectionErrorHandler got the delay 40.
C26_Witness ==
    /\ ResetScenario
    /\ eh_class = "ConnectionErrorHandler"
    /\ he_attempt = 3
    /\ error_counts[he_key] = 3
    /\ he_delay = 40

(***************************************************************************)
(*        The collect() loop of the fixed realtime collectors              *)
(***************************************************************************)
\* self.retry_delay = 5
retry_delay == 5

\* Bounds of the collector runs.
MaxTime == 7
MaxDuration == 2
MaxStat == 2

\* "self.duration_seconds = duration_seconds or self.duration_seconds"
ResolveDuration(duration_seconds, ctor_duration) ==
    IF duration_seconds # 0 THEN duration_seconds ELSE ctor_duration

\* The duration collect() is called with: a test calls collect(d);
\* CollectorAdapter.start(d) hands d through _start_collection to
\* existing_collector.collect(duration_seconds=d); the orchestrator spawns
\* method(duration_seconds=self.duration_seconds).
CollectDuration(via, arg, ctor) ==
    IF via = "orchestrator" THEN ResolveDuration(arg, ctor) ELSE arg

\* "while time.time() - start_time < duration_seconds"
LoopGuard(t, start_time, duration_seconds) ==
    t - start_time < duration_seconds

\* The fixed collectors modelled: BinanceRealtimeCollectorFixed (with it
\* Bybit and OKX, which send one subscribe message) and
\* GateRealtimeCollectorFixed (one _subscribe call per channel).
FixedCollectors == {"binance", "gate"}

\* The subscribe set of a connection: Binance sends one SUBSCRIBE message
\* with all its streams; Gate subscribes to three channels in turn.
SubscribeSet(exchange) ==
    IF exchange = "gate"
    THEN {"spot.tickers", "spot.trades", "spot.order_book"}
    ELSE {"SUBSCRIBE"}

\* GateRealtimeCollectorFixed._subscribe wraps its sends in
\* "try: ... except Exception as e: logger.error(...)": a send that raises
\* is logged and collect() goes on. Binance awaits ws.send inside collect's
\* own try, so that a send that raises ends the connection.
SwallowsSubscribeErrors(exchange) == exchange = "gate"

\* What can have been sent when collect() reaches its async for.
SubscribeOutcomes(exchange) ==
    IF SwallowsSubscribeErrors(exchange)
    THEN SUBSET SubscribeSet(exchange)
    ELSE {SubscribeSet(exchange)}

\* The places where collect() is suspended in an await.
ColSuspended ==
    {"mongo", "connecting", "subscribe", "listening", "sleep", "finally"}

ColInit ==
    /\ now = 0
    /\ c_via \in {"direct", "adapter", "orchestrator"}
    /\ c_arg \in 0..MaxDuration
    /\ c_ctor \in IF c_via = "orchestrator" THEN 0..MaxDuration ELSE {0}
    /\ c_pc = "idle" /\ c_duration = 0 /\ c_start_time = 0
    /\ c_ws = FALSE /\ c_wake = 0
    /\ c_stats = [stored |-> 0, errors |-> 0, reconnects |-> 0]
    /\ c_exchange \in FixedCollectors
    /\ c_sent = {}

\* time passes while the collector runs
Tick ==
    /\ c_pc \in ColSuspended
    /\ now < MaxTime
    /\ now' = now + 1
    /\ UNCHANGED colVars

\* collect(duration_seconds) is called: "await self.mongo.connect()"
ColStart ==
    /\ c_pc = "idle"
    /\ c_duration' = CollectDuration(c_via, c_arg, c_ctor)
    /\ c_pc' = "mongo"
    /\ UNCHANGED <<now, c_via, c_arg, c_ctor, c_start_time, c_ws, c_wake,
                   c_stats>>

\* mongo.connect() returned (it returns a bool, which collect ignores):
\* "start_time = time.time()" and the first test of the while condition
ColMongoConnected ==
    /\ c_pc = "mongo"
    /\ c_start_time' = now
    /\ c_pc' = "loop"
    /\ UNCHANGED <<now, c_via, c_arg, c_ctor, c_duration, c_ws, c_wake,
                   c_stats>>

\* the while condition: enter the body ("ws = None", then
\* "await self._connect_with_retry()") or leave the loop and return
ColLoopTest ==
    /\ c_pc = "loop"
    /\ c_pc' = IF LoopGuard(now, c_start_time, c_duration)
               THEN "connecting" ELSE "done"
    /\ UNCHANGED <<now, c_via, c_arg, c_ctor, c_duration, c_start_time,
                   c_ws, c_wake, c_stats>>

\* _connect_with_retry() returned a connection: "await ws.send(sub_msg)"
ColConnected ==
    /\ c_pc = "connecting"
    /\ c_ws' = TRUE
    /\ c_sent' = {}
    /\ c_pc' = "subscribe"
    /\ UNCHANGED <<now, c_via, c_arg, c_ctor, c_duration, c_start_time,
                   c_wake, c_stats, c_exchange>>

\* _connect_with_retry() returned None: "break", and collect returns
ColConnectFailed ==
    /\ c_pc = "connecting"
    /\ c_pc' = "done"
    /\ UNCHANGED <<now, c_via, c_arg, c_ctor, c_duration, c_start_time,
                   c_ws, c_wake, c_stats>>

\* the subscribe phase is over: "async for message in ws"
ColSubscribed ==
    /\ c_pc = "subscribe"
    /\ c_sent' \in SubscribeOutcomes(c_exchange)
    /\ c_pc' = "listening"
    /\ UNCHANGED <<now, c_via, c_arg, c_ctor, c_duration, c_start_time,
                   c_ws, c_wake, c_stats, c_exchange>>

\* one frame is received and handled. "ack" is the subscription
\* confirmation or a frame no handler takes (continue / return); "stored"
\* a frame whose handler stored its event; "error" a frame that failed to
\* decode or whose handler counted an error. The exchange sends data only
\* for what was subscribed on the connection.
ColFrame ==
    /\ c_pc = "listening"
    /\ \E kind \in {"ack", "stored", "error"} :
         /\ kind = "stored" => c_stats.stored < MaxStat /\ c_sent # {}
         /\ kind = "error" => c_stats.errors < MaxStat
         /\ c_stats' =
              CASE kind = "stored" ->
                      [c_stats EXCEPT !.stored = c_stats.stored + 1]
                [] kind = "error" ->
                      [c_stats EXCEPT !.errors = c_stats.errors + 1]
                [] OTHER -> c_stats
    /\ UNCHANGED <<now, c_via, c_arg, c_ctor, c_pc, c_duration,
                   c_start_time, c_ws, c_wake>>

\* the connection is closed normally: the async for ends, and control
\* falls to the finally clause
ColClosedOk ==
    /\ c_pc = "listening"
    /\ c_pc' = "finally"
    /\ UNCHANGED <<now, c_via, c_arg, c_ctor, c_duration, c_start_time,
                   c_ws, c_wake, c_stats>>

\* websockets.exceptions.ConnectionClosed while sending or reading:
\* "self.stats['reconnects'] += 1; await asyncio.sleep(self.retry_delay)"
ColConnectionClosed ==
    /\ c_pc \in {"subscribe", "listening"}
    /\ c_pc = "subscribe" => ~SwallowsSubscribeErrors(c_exchange)
    /\ c_stats.reconnects < MaxStat
    /\ c_stats' = [c_stats EXCEPT !.reconnects = c_stats.reconnects + 1]
    /\ c_wake' = now + retry_delay
    /\ c_pc' = "sleep"
    /\ UNCHANGED <<now, c_via, c_arg, c_ctor, c_duration, c_start_time,
                   c_ws>>

\* any other exception while sending or reading:
\* "self.stats['errors'] += 1; await asyncio.sleep(self.retry_delay)"
ColCollectionError ==
    /\ c_pc \in {"subscribe", "listening"}
    /\ c_pc = "subscribe" => ~SwallowsSubscribeErrors(c_exchange)
    /\ c_stats.errors < MaxStat
    /\ c_stats' = [c_stats EXCEPT !.errors = c_stats.errors + 1]
    /\ c_wake' = now + retry_delay
    /\ c_pc' = "sleep"
    /\ UNCHANGED <<now, c_via, c_arg, c_ctor, c_duration, c_start_time,
                   c_ws>>

\* the sleep of an except clause is over: on to the finally clause
ColWake ==
    /\ c_pc = "sleep"
    /\ now >= c_wake
    /\ c_pc' = "finally"
    /\ UNCHANGED <<now, c_via, c_arg, c_ctor, c_duration, c_start_time,
                   c_ws, c_wake, c_stats>>

\* "finally: if ws: await ws.close()", then the while condition again
ColFinally ==
    /\ c_pc = "finally"
    /\ c_ws' = FALSE
    /\ c_pc' = "loop"
    /\ UNCHANGED <<now, c_via, c_arg, c_ctor, c_duration, c_start_time,
                   c_wake, c_stats>>

\* the task running collect() is cancelled: CancelledError is raised at the
\* await it is suspended in, no except clause takes it (it is not an
\* Exception), the finally clause closes the connection
ColCancel ==
    /\ c_pc \in ColSuspended
    /\ c_ws' = FALSE
    /\ c_pc' = "cancelled"
    /\ UNCHANGED <<now, c_via, c_arg, c_ctor, c_duration, c_start_time,
                   c_wake, c_stats>>

ColNext ==
    \/ Tick /\ UNCHANGED notCol
    \/ ColStart /\ UNCHANGED subVars /\ UNCHANGED notCol
    \/ ColMongoConnected /\ UNCHANGED subVars /\ UNCHANGED notCol
    \/ ColLoopTest /\ UNCHANGED subVars /\ UNCHANGED notCol
    \/ ColConnected /\ UNCHANGED notCol
    \/ ColConnectFailed /\ UNCHANGED subVars /\ UNCHANGED notCol
    \/ ColSubscribed /\ UNCHANGED notCol
    \/ ColFrame /\ UNCHANGED subVars /\ UNCHANGED notCol
    \/ ColClosedOk /\ UNCHANGED subVars /\ UNCHANGED notCol
    \/ ColConnectionClosed /\ UNCHANGED subVars /\ UNCHANGED notCol
    \/ ColCollectionError /\ UNCHANGED subVars /\ UNCHANGED notCol
    \/ ColWake /\ UNCHANGED subVars /\ UNCHANGED notCol
    \/ ColFinally /\ UNCHANGED subVars /\ UNCHANGED notCol
    \/ ColCancel /\ UNCHANGED subVars /\ UNCHANGED notCol

SpecCollectInit ==
    /\ ColInit /\ SymIdle /\ EhDefault /\ SrIdle /\ HeIdle /\ OrchIdle
    /\ RestIdle
    /\ GdIdle
    /\ BcIdle
    /\ CfIdle
    /\ AdIdle
    /\ CrIdle
    /\ LcIdle
    /\ SkIdle
SpecCollect == SpecCollectInit /\ [][ColNext]_vars

\* C6 (as claimed): a collector started with duration 0 keeps collecting
\* until it is explicitly stopped or cancelled; its collection loop never
\* finishes on its own, both when started through CollectorAdapter.start
\* and when spawned by the orchestrator with duration_seconds = 0.
C6_ZeroRunsUntilStopped ==
    (c_pc # "idle" /\ c_duration = 0) => c_pc # "done"

\* C7 (as claimed): collect(d) with d > 0 returns once d seconds have
\* elapsed, also when the connection stays open and keeps delivering
\* frames: it has returned by start_time + d, so no frame's event is stored
\* at or after that time.
C7_ReturnsAtDeadline ==
    [][(/\ c_pc \notin {"idle", "mongo"}
        /\ c_duration > 0
        /\ now - c_start_time >= c_duration)
            => c_stats'.stored = c_stats.stored]_vars

\* C12 (as claimed): every connection attempt of a supervisor other than
\* its first is preceded by a backoff wait, whichever way the previous
\* connection ended. In collect() a later attempt is made only by going
\* round the while loop through the finally clause, so the claim says that
\* the finally clause is reached only from the sleep of an except clause.
C12_BackoffBeforeRetry ==
    [][(c_pc # "finally" /\ c_pc' = "finally") => c_pc = "sleep"]_vars

\* C15 (as claimed): on every successful connection and reconnection the
\* full subscribe set is sent again, before any data frame of that
\* connection is processed: whenever the read loop of collect() handles a
\* data frame (one that is stored or counted as an error), every
\* subscription of the set has been sent on the current connection.
C15_SubscribedBeforeFrames ==
    [][(c_pc = "listening" /\ c_pc' = "listening" /\ c_stats' # c_stats)
          => c_sent = SubscribeSet(c_exchange)]_vars

\* C31 (as claimed): every reconnection increments the reconnect counter by
\* exactly one and leaves the error counter alone unless it followed a
\* fault. A reconnection starts when collect() leaves an open connection to
\* go round its loop again: through the connection-closed clause or the
\* generic exception clause (both then sleep) or because the read loop
\* ended with a normal close (straight to the finally clause). On each such
\* step stats['reconnects'] grows by one, and when there was no exception
\* stats['errors'] is unchanged.
C31_ReconnectCounted ==
    [][(c_pc \in {"subscribe", "listening"} /\ c_pc' \in {"sleep", "finally"})
          => /\ c_stats'.reconnects = c_stats.reconnects + 1
             /\ c_pc' = "finally" => c_stats'.errors = c_stats.errors]_vars

(***************************************************************************)
(*                  SimpleOptimizedOrchestrator                            *)
(***************************************************************************)
\* "await asyncio.sleep(10)  # Check every 10 seconds"
MonitorInterval == 10

\* Bounds of the orchestrator runs: the number of collectors, the run
\* lengths (in monitor intervals) and the clock (in monitor intervals).
NumCollectors == 3
MaxRunIntervals == 2
MaxOrchIntervals == 3

OrchDurations == {k * MonitorInterval : k \in 0..MaxRunIntervals}

\* asyncio.Task states: "running" is a task that is not done and has no
\* cancellation pending, "cancelling" one whose cancel() was called and
\* whose CancelledError is not delivered yet; the other three are done.
DoneStates == {"finished", "failed", "cancelled"}
TaskDone(ts, t) == ts[t] \in DoneStates

\* get_status()["running_tasks"]:
\* sum(1 for task in self.tasks if not task.done())
running_tasks(ts) == Cardinality({t \in DOMAIN ts : ~TaskDone(ts, t)})

\* _check_failed_tasks: "if task.done() and task.exception():
\* failed_tasks.append(task)"; the failed tasks are logged and nothing else
\* is done with them.
failed_tasks(ts) == {t \in DOMAIN ts : ts[t] = "failed"}

\* stop_collection: "for task in self.tasks: if not task.done():
\* task.cancel()"
CancelAll(ts) ==
    [t \in DOMAIN ts |-> IF TaskDone(ts, t) THEN ts[t] ELSE "cancelling"]

\* "await asyncio.gather(*self.tasks, return_exceptions=True)" returns when
\* every task is done
GatherReturns_NoWait(ts) == TRUE
GatherReturns(ts) == \A t \in DOMAIN ts : TaskDone(ts, t)

\* "if self.duration_seconds > 0 and elapsed >= self.duration_seconds"
DurationCompleted_ZeroIsDue(t, start_time, duration_seconds) ==
    t - start_time >= duration_seconds
DurationCompleted(t, start_time, duration_seconds) ==
    duration_seconds > 0 /\ t - start_time >= duration_seconds

\* The monitor loop ends when "while self.running" fails or the duration
\* check breaks out of it.
MonitorLoopExits_FailFast(running, t, start_time, duration_seconds) ==
    \/ ~running
    \/ DurationCompleted(t, start_time, duration_seconds)
    \/ failed_tasks(tasks) # {}
MonitorLoopExits(running, t, start_time, duration_seconds) ==
    ~running \/ DurationCompleted(t, start_time, duration_seconds)

\* SimpleOptimizedOrchestrator(duration_seconds=...): running = False, the
\* signal handlers are installed
OrchInit ==
    /\ now = 0
    /\ o_ctor \in OrchDurations
    /\ o_arg \in {0, MonitorInterval}
    /\ o_duration = o_ctor
    /\ o_running = FALSE
    /\ o_start_time = 0
    /\ o_pc = "constructed"
    /\ o_wake = 0
    /\ o_signalled = FALSE
    /\ o_failed_found = 0
    /\ tasks = <<>>

\* time passes
OrchTick ==
    /\ o_pc \in {"constructed", "starting", "sleeping", "gathering"}
    /\ now < MaxOrchIntervals * MonitorInterval
    /\ now' = now + MonitorInterval
    /\ UNCHANGED orchVars

\* signal_handler(signum, frame) for SIGINT or SIGTERM: it can run at any
\* moment after the constructor installed it
Signal ==
    /\ o_pc # "none"
    /\ o_running' = FALSE
    /\ o_signalled' = TRUE
    /\ UNCHANGED <<now, o_ctor, o_arg, o_duration, o_start_time, o_pc,
                   o_wake, o_failed_found, tasks>>

\* start_collection(duration_seconds) up to _initialize_collectors
OrchStart ==
    /\ o_pc = "constructed"
    /\ o_duration' = ResolveDuration(o_arg, o_duration)
    /\ o_running' = TRUE
    /\ o_start_time' = now
    /\ o_pc' = "starting"
    /\ UNCHANGED <<now, o_ctor, o_arg, o_wake, o_signalled, o_failed_found,
                   tasks>>

\* _initialize_collectors and _start_all_collectors: one task per
\* collector, appended to self.tasks; then _monitor_collection begins
OrchStartAllCollectors ==
    /\ o_pc = "starting"
    /\ tasks' = [t \in 1..NumCollectors |-> "running"]
    /\ o_pc' = "monitoring"
    /\ UNCHANGED <<now, o_ctor, o_arg, o_duration, o_running, o_start_time,
                   o_wake, o_signalled, o_failed_found>>

\* one pass of the monitor loop, from "while self.running" to
\* "await asyncio.sleep(10)"
OrchMonitor ==
    /\ o_pc = "monitoring"
    /\ IF MonitorLoopExits(o_running, now, o_start_time, o_duration)
       THEN /\ o_pc' = "stopping"
            /\ UNCHANGED <<o_failed_found, o_wake>>
       ELSE /\ o_failed_found' = Cardinality(failed_tasks(tasks))
            /\ o_wake' = now + MonitorInterval
            /\ o_pc' = "sleeping"
    /\ UNCHANGED <<now, o_ctor, o_arg, o_duration, o_running, o_start_time,
                   o_signalled, tasks>>

\* the monitor loop's sleep is over
OrchWake ==
    /\ o_pc = "sleeping"
    /\ now >= o_wake
    /\ o_pc' = "monitoring"
    /\ UNCHANGED <<now, o_ctor, o_arg, o_duration, o_running, o_start_time,
                   o_wake, o_signalled, o_failed_found, tasks>>

\* stop_collection (the finally clause of start_collection) up to the
\* gather: running = False, every task that is not done is cancelled
OrchStop ==
    /\ o_pc = "stopping"
    /\ o_running' = FALSE
    /\ tasks' = CancelAll(tasks)
    /\ o_pc' = "gathering"
    /\ UNCHANGED <<now, o_ctor, o_arg, o_duration, o_start_time, o_wake,
                   o_signalled, o_failed_found>>

\* the gather returns and with it stop_collection and start_collection
OrchStopped ==
    /\ o_pc = "gathering"
    /\ GatherReturns(tasks)
    /\ o_pc' = "stopped"
    /\ UNCHANGED <<now, o_ctor, o_arg, o_duration, o_running, o_start_time,
                   o_wake, o_signalled, o_failed_found, tasks>>

\* The event loop runs the tasks only while the orchestrator's coroutine
\* is suspended in an await.
OrchSuspended == o_pc \in {"sleeping", "gathering"}

\* a collector's coroutine returns (its run length is over, or it could
\* not connect)
TaskFinishes ==
    /\ OrchSuspended
    /\ \E t \in DOMAIN tasks :
         /\ tasks[t] = "running"
         /\ tasks' = [tasks EXCEPT ![t] = "finished"]
    /\ UNCHANGED <<now, o_ctor, o_arg, o_duration, o_running, o_start_time,
                   o_pc, o_wake, o_signalled, o_failed_found>>

\* a collector's coroutine ends with an exception; a cancelled one does
\* when its finally clause raises
TaskFails ==
    /\ OrchSuspended
    /\ \E t \in DOMAIN tasks :
         /\ tasks[t] \in {"running", "cancelling"}
         /\ tasks' = [tasks EXCEPT ![t] = "failed"]
    /\ UNCHANGED <<now, o_ctor, o_arg, o_duration, o_running, o_start_time,
                   o_pc, o_wake, o_signalled, o_failed_found>>

\* the CancelledError of a cancelled task is delivered and ends it
TaskCancelled ==
    /\ OrchSuspended
    /\ \E t \in DOMAIN tasks :
         /\ tasks[t] = "cancelling"
         /\ tasks' = [tasks EXCEPT ![t] = "cancelled"]
    /\ UNCHANGED <<now, o_ctor, o_arg, o_duration, o_running, o_start_time,
                   o_pc, o_wake, o_signalled, o_failed_found>>

OrchNext ==
    \/ OrchTick /\ UNCHANGED notOrch
    \/ Signal /\ UNCHANGED notOrch
    \/ OrchStart /\ UNCHANGED notOrch
    \/ OrchStartAllCollectors /\ UNCHANGED notOrch
    \/ OrchMonitor /\ UNCHANGED notOrch
    \/ OrchWake /\ UNCHANGED notOrch
    \/ OrchStop /\ UNCHANGED notOrch
    \/ OrchStopped /\ UNCHANGED notOrch
    \/ TaskFinishes /\ UNCHANGED notOrch
    \/ TaskFails /\ UNCHANGED notOrch
    \/ TaskCancelled /\ UNCHANGED notOrch

SpecOrchInit ==
    /\ OrchInit /\ ColQuiet /\ SymIdle /\ EhDefault /\ SrIdle /\ HeIdle
    /\ RestIdle
    /\ GdIdle
    /\ BcIdle
    /\ CfIdle
    /\ AdIdle
    /\ CrIdle
    /\ LcIdle
    /\ SkIdle
SpecOrch == SpecOrchInit /\ [][OrchNext]_vars

\* C8: after stop_collection returns, every spawned collector task is done
\* (finished, failed or cancelled) and get_status reports running_tasks =
\* 0, whatever the tasks' states were at the moment of the stop.
C8_StoppedMeansAllDone ==
    o_pc = "stopped" =>
        /\ \A t \in DOMAIN tasks : TaskDone(tasks, t)
        /\ running_tasks(tasks) = 0

\* C8 witness: stop_collection has returned with one task that had finished
\* by itself, one that had failed and one that the stop cancelled.
C8_Witness ==
    /\ o_pc = "stopped"
    /\ \E t \in DOMAIN tasks : tasks[t] = "cancelled"
    /\ \E t \in DOMAIN tasks : tasks[t] = "failed"
    /\ \E t \in DOMAIN tasks : tasks[t] = "finished"

\* C9 (as claimed): no signal is lost. Whenever SIGINT/SIGTERM was received
\* after construction (before, during or after start_collection starts the
\* collectors) the running flag is cleared, so the monitor loop is never at
\* work with the flag set after a signal.
C9_NoSignalLost ==
    (o_signalled /\ o_pc \in {"starting", "monitoring", "sleeping"})
        => o_running = FALSE

\* C10: failure isolation. While the orchestrator has not begun to stop, no
\* task is cancelled; and the pass of the monitor loop that meets a failed
\* task (with the flag set and the run length not over) reports it and
\* goes on to its sleep with the flag and every task as they were.
C10_FailureIsolation ==
    /\ [](o_pc \in {"monitoring", "sleeping"} =>
            \A t \in DOMAIN tasks : tasks[t] \notin {"cancelling", "cancelled"})
    /\ [][(/\ o_pc = "monitoring"
           /\ o_pc' # "monitoring"
           /\ o_running
           /\ ~DurationCompleted(now, o_start_time, o_duration)
           /\ \E t \in DOMAIN tasks : tasks[t] = "failed")
              => (/\ o_pc' = "sleeping"
                  /\ o_failed_found' >= 1
                  /\ o_running' = TRUE
                  /\ tasks' = tasks)]_vars

\* C10 witness: the monitor loop is asleep again after a pass that found
\* one failed task, and another task is still running.
C10_Witness ==
    /\ o_pc = "sleeping"
    /\ o_failed_found = 1
    /\ o_running
    /\ \E t \in DOMAIN tasks : tasks[t] = "failed"
    /\ \E t \in DOMAIN tasks : tasks[t] = "running"

\* C30: the monitor loop and the run length. A pass of the monitor loop (a
\* tick) made with a run length d > 0 and an elapsed time >= d leaves the
\* loop, and no pass made while the running flag is set leaves it for any
\* other reason, so the loop exits at the first such tick; with a run
\* length of 0 a pass made while the running flag is set never leaves the
\* loop but goes to the next sleep.
C30_MonitorExitsWhenElapsed ==
    [][(o_pc = "monitoring" /\ o_pc' # "monitoring") =>
          /\ (o_duration > 0 /\ now - o_start_time >= o_duration)
                => o_pc' = "stopping"
          /\ (o_pc' = "stopping" /\ o_running)
                => (o_duration > 0 /\ now - o_start_time >= o_duration)
          /\ (o_duration = 0 /\ o_running) => o_pc' = "sleeping"]_vars

\* C30 witness: with a run length of two intervals and no signal, the loop
\* was left at the tick at which two intervals had elapsed.
C30_Witness ==
    /\ o_pc = "stopping" /\ o_running /\ ~o_signalled
    /\ o_duration = 2 * MonitorInterval
    /\ now - o_start_time = o_duration

(***************************************************************************)
(*     BaseWebSocketClient.run with the BinanceWebSocketClient parser      *)
(***************************************************************************)
\* class Config, "# WebSocket Configuration": the attributes it defines
ConfigWebSocketAttributes ==
    {"WS_PING_INTERVAL", "WS_PING_TIMEOUT", "WS_RECONNECT_DELAY",
     "WS_MAX_RECONNECT_ATTEMPTS"}

\* WS_MAX_RECONNECT_ATTEMPTS = int(os.getenv(..., '10'))
WS_MAX_RECONNECT_ATTEMPTS == 10

\* Reading a class attribute: its value, or AttributeError when the class
\* does not define it.
ConfigRead(name) ==
    IF name \in ConfigWebSocketAttributes THEN "value" ELSE "AttributeError"

\* reconnect() begins with
\* "if self.reconnect_attempts >= Config.MAX_RECONNECT_ATTEMPTS": what that
\* read gives decides whether anything else of reconnect() runs.
reconnect == ConfigRead("MAX_RECONNECT_ATTEMPTS")

\* "if self._stats['consecutive_errors'] > 10": the consecutive-error
\* health threshold
ConsecutiveErrorThreshold == 10

\* Bounds of the client runs: connection attempts, frames received, frames
\* in a row that raise, and events (delivered or still to be delivered).
MaxConnects == 3
MaxFrames == 12
MaxFaults == 11
MaxEvents == 4

\* What one frame is to listen(): a ticker frame (parse_message returns a
\* MARKET_DATA message and _parse_ticker_data has spawned the task that
\* notifies the VOLUME_LIQUIDITY message), a trade frame (a TICK_PRICES
\* message), or a frame on which json.loads or the processing raises.
FrameKinds == {"ticker", "trade", "fault"}

\* The events "await self._notify_handlers(parsed_message)" hands to the
\* handlers for frame k, inside listen().
Notified(kind, k) ==
    CASE kind = "ticker" -> << <<k, "market_data">> >>
      [] kind = "trade" -> << <<k, "tick_prices">> >>
      [] OTHER -> <<>>

\* "asyncio.create_task(self._notify_handlers(volume_message))": the tasks
\* frame k adds to the event loop
Spawned(kind, k) == IF kind = "ticker" THEN {k} ELSE {}

\* Where listen() is after a frame: "except json.JSONDecodeError" and
\* "except Exception" log and the async for goes on to the next frame.
AfterFrame_Propagates(kind) == IF kind = "fault" THEN "run" ELSE "listening"
AfterFrame(kind) == "listening"

\* client = BinanceWebSocketClient(symbols); run() is called
CliInit ==
    /\ w_pc = "run" /\ is_connected = FALSE /\ w_open = FALSE
    /\ w_attempts = 0 /\ w_failed = 0 /\ w_result = "" /\ w_frame = 0
    /\ w_faults = 0 /\ w_pending = {} /\ w_log = <<>>

\* run(): "if not self.is_connected: await self.connect()", then
\* "await self.listen()"
CliRun ==
    /\ w_pc = "run"
    /\ IF is_connected
       THEN /\ w_pc' = "listening"
            /\ UNCHANGED w_attempts
       ELSE /\ w_attempts < MaxConnects
            /\ w_attempts' = w_attempts + 1
            /\ w_pc' = "connecting"
    /\ UNCHANGED <<is_connected, w_open, w_failed, w_result, w_frame,
                   w_faults, w_pending, w_log>>

\* connect(): websockets.connect returned; get_subscription_message() is
\* None for Binance (the streams are in the URL), so nothing is sent;
\* run() goes on to listen()
CliConnected ==
    /\ w_pc = "connecting"
    /\ is_connected' = TRUE
    /\ w_open' = TRUE
    /\ w_faults' = 0
    /\ w_pc' = "listening"
    /\ UNCHANGED <<w_attempts, w_failed, w_result, w_frame, w_pending,
                   w_log>>

\* connect(): websockets.connect raised; connect() re-raises, run()'s
\* except clause sets is_connected = False and calls reconnect()
CliConnectFailed ==
    /\ w_pc = "connecting"
    /\ is_connected' = FALSE
    /\ w_failed' = w_failed + 1
    /\ IF reconnect = "AttributeError"
       THEN w_pc' = "terminated" /\ w_result' = "AttributeError"
       ELSE w_pc' = "backoff" /\ w_result' = ""
    /\ UNCHANGED <<w_open, w_attempts, w_frame, w_faults, w_pending, w_log>>

\* listen(): one frame is received and processed
CliFrame ==
    /\ w_pc = "listening"
    /\ w_open
    /\ w_frame < MaxFrames
    /\ \E kind \in FrameKinds :
         LET k == w_frame + 1 IN
         /\ kind = "fault" => w_faults < MaxFaults
         /\ Len(w_log) + Cardinality(w_pending)
                + Len(Notified(kind, k)) + Cardinality(Spawned(kind, k))
                    <= MaxEvents
         /\ w_frame' = k
         /\ w_faults' = IF kind = "fault" THEN w_faults + 1 ELSE 0
         /\ w_pending' = w_pending \cup Spawned(kind, k)
         /\ w_log' = w_log \o Notified(kind, k)
         /\ w_pc' = AfterFrame(kind)
    /\ UNCHANGED <<is_connected, w_open, w_attempts, w_failed, w_result>>

\* a task spawned by _parse_ticker_data gets the event loop: it runs
\* whenever no other coroutine is running, that is at any await of run()
\* or after run() has ended
CliVolumeTask ==
    /\ \E k \in w_pending :
         /\ w_pending' = w_pending \ {k}
         /\ w_log' = Append(w_log, <<k, "volume_liquidity">>)
    /\ UNCHANGED <<w_pc, is_connected, w_open, w_attempts, w_failed,
                   w_result, w_frame, w_faults>>

\* listen(): the connection ends. A normal close ends the async for without
\* an exception and leaves is_connected as it is; ConnectionClosed and any
\* other exception are caught by listen(), which sets is_connected = False.
\* Either way listen() returns normally to run()'s while loop. Reading a
\* connection that is closed already ends the same way.
CliListenEnds ==
    /\ w_pc = "listening"
    /\ \E how \in {"ok", "ConnectionClosed", "Exception"} :
         /\ ~w_open => how = "ok"
         /\ is_connected' = IF how = "ok" THEN is_connected ELSE FALSE
    /\ w_open' = FALSE
    /\ w_pc' = "run"
    /\ UNCHANGED <<w_attempts, w_failed, w_result, w_frame, w_faults,
                   w_pending, w_log>>

CliNext ==
    \/ CliRun /\ UNCHANGED notCli
    \/ CliConnected /\ UNCHANGED notCli
    \/ CliConnectFailed /\ UNCHANGED notCli
    \/ CliFrame /\ UNCHANGED notCli
    \/ CliVolumeTask /\ UNCHANGED notCli
    \/ CliListenEnds /\ UNCHANGED notCli

SpecClientInit ==
    /\ CliInit /\ SymIdle /\ EhDefault /\ SrIdle /\ HeIdle /\ ColIdle
    /\ OrchIdle /\ FacQuiet /\ FrmIdle
    /\ GdIdle
    /\ BcIdle
    /\ CfIdle
    /\ AdIdle
    /\ CrIdle
    /\ LcIdle
    /\ SkIdle
SpecClient == SpecClientInit /\ [][CliNext]_vars

\* C11 (as claimed): after a failed connection attempt the supervisor waits
\* the computed delay and tries again; it is terminated only when the count
\* of failed attempts has exceeded the configured ceiling, never after
\* fewer failed attempts.
C11_TerminatedOnlyPastCeiling ==
    w_pc = "terminated" => w_failed > WS_MAX_RECONNECT_ATTEMPTS

\* C14 (as claimed): within one supervisor the events reach the handlers in
\* the order in which their frames were received, the VolumeLiquidity event
\* derived from a ticker frame included: no event of frame k is delivered
\* after an event of frame k+1.
C14_DeliveredInFrameOrder ==
    \A i, j \in 1..Len(w_log) : i < j => w_log[i][1] <= w_log[j][1]

\* C16: parse-fault containment. A frame on which decoding, parsing or
\* handling raises leaves listen() reading the same open connection, with
\* no event delivered for it and run() not terminated; and the frame
\* received after faulty ones, when it is a valid one, has its event handed
\* to the handlers.
C16_ParseFaultContained ==
    /\ [][(w_frame' = w_frame + 1 /\ w_faults' = w_faults + 1)
            => (/\ w_pc' = "listening"
                /\ w_open' /\ is_connected'
                /\ w_attempts' = w_attempts
                /\ w_result' = ""
                /\ w_log' = w_log)]_vars
    /\ [][(w_frame' = w_frame + 1 /\ w_faults > 0 /\ w_faults' = 0)
            => (/\ Len(w_log') = Len(w_log) + 1
                /\ w_log'[Len(w_log')][1] = w_frame'
                /\ w_attempts' = w_attempts)]_vars

\* C16 witness: on the first connection, frame 1 raised (it left no event)
\* and frame 2, a trade, was delivered; listen() is reading on.
C16_Witness ==
    /\ w_pc = "listening" /\ w_open
    /\ w_attempts = 1
    /\ w_frame = 2
    /\ w_faults = 0
    /\ w_log = << <<2, "tick_prices">> >>

\* C17 (as claimed): when the number of consecutive parse faults on a
\* connection exceeds the consecutive-error health threshold (10), the
\* connection is torn down and re-established: listen() is not reading on
\* that connection any more.
C17_FaultsTearDown ==
    w_faults > ConsecutiveErrorThreshold => ~(w_pc = "listening" /\ w_open)

(***************************************************************************)
(*      collect() of the realtime collectors the CollectorFactory has      *)
(***************************************************************************)
\* CollectorType.REALTIME of _register_builtin_collectors, per exchange
RealtimeRegistry ==
    [binance |-> "BinanceRealtimeCollector",
     bybit   |-> "BybitRealtimeCollector",
     kraken  |-> "RobustKrakenCollector",
     gate    |-> "GateRealtimeCollector",
     okx     |-> "OKXRealtimeCollector"]

\* "await asyncio.wait_for(ws.recv(), timeout=2.0)"; Kraken: timeout=1.0
RecvTimeout(class) == IF class = "RobustKrakenCollector" THEN 1 ELSE 2

\* RobustKrakenCollector.collect_data has "except Exception" around its
\* connection and returns normally; the others let a failed
\* websockets.connect leave collect() through "finally".
CatchesConnectFailure(class) == class = "RobustKrakenCollector"

\* Bounds of the factory collectors' runs: the clock, the run length and
\* the errors counted.
FacMaxTime == 6
FacMaxDuration == 4
FacMaxErrors == 2

FacInit ==
    /\ now = 0
    /\ f_class \in {RealtimeRegistry[e] : e \in DOMAIN RealtimeRegistry}
    /\ f_duration \in 1..FacMaxDuration
    /\ f_pc = "idle" /\ f_start = 0 /\ f_open = FALSE /\ f_attempts = 0
    /\ f_wake = 0 /\ f_errors = 0 /\ f_noticed = FALSE

\* time passes while collect() is suspended
FacTick ==
    /\ f_pc \in {"connecting", "recv"}
    /\ now < FacMaxTime
    /\ now' = now + 1
    /\ UNCHANGED facVars

\* collect(duration_seconds): mongo.connect(), then
\* "async with websockets.connect(self.ws_url, ...) as ws"
FacStart ==
    /\ f_pc = "idle"
    /\ f_attempts' = f_attempts + 1
    /\ f_pc' = "connecting"
    /\ UNCHANGED <<now, f_class, f_duration, f_start, f_open, f_wake,
                   f_errors, f_noticed>>

\* the connection is made and the subscriptions are sent:
\* "start = time.time()" and the first test of the while condition
FacConnected ==
    /\ f_pc = "connecting"
    /\ f_open' = TRUE
    /\ f_start' = now
    /\ f_pc' = "loop"
    /\ UNCHANGED <<now, f_class, f_duration, f_attempts, f_wake, f_errors,
                   f_noticed>>

\* websockets.connect (or the subscribe send) raises: collect() ends, with
\* the exception or, for Kraken, after counting an error
FacConnectFailed ==
    /\ f_pc = "connecting"
    /\ f_errors' = IF CatchesConnectFailure(f_class) THEN f_errors + 1
                   ELSE f_errors
    /\ f_pc' = IF CatchesConnectFailure(f_class) THEN "done" ELSE "raised"
    /\ UNCHANGED <<now, f_class, f_duration, f_start, f_open, f_attempts,
                   f_wake, f_noticed>>

\* "while time.time() - start < duration_seconds": into wait_for(ws.recv())
\* or out of the loop, the connection and collect()
FacLoopTest ==
    /\ f_pc = "loop"
    /\ IF LoopGuard(now, f_start, f_duration)
       THEN /\ f_pc' = "recv"
            /\ f_wake' = now + RecvTimeout(f_class)
            /\ UNCHANGED f_open
       ELSE /\ f_pc' = "done"
            /\ f_open' = FALSE
            /\ UNCHANGED f_wake
    /\ UNCHANGED <<now, f_class, f_duration, f_start, f_attempts, f_errors,
                   f_noticed>>

\* ws.recv() returns a frame and _handle_message handles it
FacFrame ==
    /\ f_pc = "recv"
    /\ f_open
    /\ f_pc' = "loop"
    /\ UNCHANGED <<now, f_class, f_duration, f_start, f_open, f_attempts,
                   f_wake, f_errors, f_noticed>>

\* "except asyncio.TimeoutError: continue"
FacRecvTimeout ==
    /\ f_pc = "recv"
    /\ f_open
    /\ now >= f_wake
    /\ f_pc' = "loop"
    /\ UNCHANGED <<now, f_class, f_duration, f_start, f_open, f_attempts,
                   f_wake, f_errors, f_noticed>>

\* the exchange or the network closes the transport
FacTransportCloses ==
    /\ f_pc = "recv"
    /\ f_open
    /\ f_open' = FALSE
    /\ UNCHANGED <<now, f_class, f_pc, f_duration, f_start, f_attempts,
                   f_wake, f_errors, f_noticed>>

\* ws.recv() on the closed transport raises ConnectionClosed:
\* "except Exception as e: ... self.stats['errors'] += 1; continue"
FacRecvError ==
    /\ f_pc = "recv"
    /\ ~f_open
    /\ f_errors < FacMaxErrors
    /\ f_errors' = f_errors + 1
    /\ f_noticed' = TRUE
    /\ f_pc' = "loop"
    /\ UNCHANGED <<now, f_class, f_duration, f_start, f_open, f_attempts,
                   f_wake>>

\* the task running collect() is cancelled (the collector is stopped)
FacCancel ==
    /\ f_pc \in {"connecting", "recv"}
    /\ f_open' = FALSE
    /\ f_pc' = "cancelled"
    /\ UNCHANGED <<now, f_class, f_duration, f_start, f_attempts, f_wake,
                   f_errors, f_noticed>>

FacNext ==
    \/ FacTick /\ UNCHANGED notFac
    \/ FacStart /\ UNCHANGED notFac
    \/ FacConnected /\ UNCHANGED notFac
    \/ FacConnectFailed /\ UNCHANGED notFac
    \/ FacLoopTest /\ UNCHANGED notFac
    \/ FacFrame /\ UNCHANGED notFac
    \/ FacRecvTimeout /\ UNCHANGED notFac
    \/ FacTransportCloses /\ UNCHANGED notFac
    \/ FacRecvError /\ UNCHANGED notFac
    \/ FacCancel /\ UNCHANGED notFac

SpecFactoryInit ==
    /\ FacInit /\ SymIdle /\ EhDefault /\ SrIdle /\ HeIdle /\ ColQuiet
    /\ OrchIdle /\ CliIdle /\ FrmIdle
    /\ GdIdle
    /\ BcIdle
    /\ CfIdle
    /\ AdIdle
    /\ CrIdle
    /\ LcIdle
    /\ SkIdle
SpecFactory == SpecFactoryInit /\ [][FacNext]_vars

\* C13 (as claimed): after the transport closes while a collector is
\* streaming, the collector makes a new connection attempt, unless it was
\* stopped or its run length has elapsed; for every realtime collector
\* class of the factory. Stated on what the collector does next: once a
\* read has met the closed transport, the collector does not go back to
\* reading (which it does only when it is not stopped and its run length
\* is not over) without having made a new connection attempt.
C13_ReconnectsAfterClose ==
    (f_pc = "recv" /\ f_noticed) => f_attempts > 1

(***************************************************************************)
(*          The frame handlers: ticker, trade and order book               *)
(***************************************************************************)
\* Python's None: what dict.get gives for a key the frame does not carry,
\* and what an event holds for an optional field that is not reported.
NoneValue == -1
\* A field value on which float() raises ValueError.
Unparsable == -2

\* "float(m.get(key, 0) or 0)" / "float(data.get(key, 0))" for a value that
\* parses: a missing key counts as 0
FloatOrZero(v) == IF v = NoneValue THEN 0 ELSE v
\* float() raises on one of the values converted
FloatRaises(values) == Unparsable \in values
\* "bid=bid or None"
OrNone(x) == IF x = 0 THEN NoneValue ELSE x

\* WebSocketMessage(data_type=..., data=...): the event handed to
\* mongo.store_message
Event(type, symbol, price, volume, bid, ask, bids, asks) ==
    [type |-> type, symbol |-> symbol, price |-> price, volume |-> volume,
     bid |-> bid, ask |-> ask, bids |-> bids, asks |-> asks]

\* What a handler did: the events it stored, in order, what it added to
\* stats["stored"] and to stats["errors"].
Result(events, errors) ==
    [events |-> events, stored |-> Len(events), errors |-> errors]

\* The methods SimpleMongoDBCollector defines.
MongoMethods ==
    {"connect", "_create_indexes", "store_message", "_serialize_data",
     "get_data_stats", "get_collection_summary", "disconnect",
     "get_performance_stats"}

\* "bids[:20]"
Take(levels, depth) == SubSeq(levels, 1, Min(Len(levels), depth))

\* The depth each handler's subscription asks for: "@depth20@100ms" for the
\* Binance collectors and client, {"name": "book", "depth": 25} for Kraken.
ConfiguredDepth(handler) ==
    IF handler = "RobustKrakenCollector" THEN 25 ELSE 20

BinanceRealtimeCollector_handle_ticker(m) ==
    IF FloatRaises({m.price, m.volume, m.bid, m.ask}) THEN Result(<<>>, 1)
    ELSE LET price == FloatOrZero(m.price)
             vol24 == FloatOrZero(m.volume)
             bid == FloatOrZero(m.bid)
             ask == FloatOrZero(m.ask)
         IN IF m.symbol = "" \/ price <= 0 THEN Result(<<>>, 0)
            ELSE Result(
                << Event("market_data", m.symbol, price, vol24,
                         OrNone(bid), OrNone(ask), <<>>, <<>>),
                   Event("volume_liquidity", m.symbol, NoneValue, vol24,
                         NoneValue, NoneValue, <<>>, <<>>) >>, 0)

\* Bybit takes the symbol from the topic and tests the price only; the
\* volume/liquidity event is stored "if volume_24h > 0".
BybitRealtimeCollector_handle_ticker(m) ==
    IF FloatRaises({m.price, m.volume, m.bid, m.ask}) THEN Result(<<>>, 1)
    ELSE LET price == FloatOrZero(m.price)
             volume_24h == FloatOrZero(m.volume)
             bid == FloatOrZero(m.bid)
             ask == FloatOrZero(m.ask)
             md == Event("market_data", m.symbol, price, volume_24h,
                         OrNone(bid), OrNone(ask), <<>>, <<>>)
             vl == Event("volume_liquidity", m.symbol, NoneValue,
                         volume_24h, NoneValue, NoneValue, <<>>, <<>>)
         IN IF price <= 0 THEN Result(<<>>, 0)
            ELSE IF volume_24h > 0 THEN Result(<<md, vl>>, 0)
            ELSE Result(<<md>>, 0)

\* The fixed collector returns on a missing symbol, builds the MarketData
\* and calls self.mongo.store_market_data, inside "except Exception:
\* self.stats['errors'] += 1".
BinanceRealtimeCollectorFixed_handle_ticker(m) ==
    IF m.symbol = "" THEN Result(<<>>, 0)
    ELSE IF FloatRaises({m.price, m.volume, m.bid, m.ask})
    THEN Result(<<>>, 1)
    ELSE IF "store_market_data" \notin MongoMethods THEN Result(<<>>, 1)
    ELSE Result(<< Event("market_data", m.symbol, FloatOrZero(m.price),
                         FloatOrZero(m.volume), FloatOrZero(m.bid),
                         FloatOrZero(m.ask), <<>>, <<>>) >>, 0)

BinanceRealtimeCollector_handle_trade(m) ==
    IF FloatRaises({m.price, m.qty}) THEN Result(<<>>, 1)
    ELSE LET price == FloatOrZero(m.price)
             qty == FloatOrZero(m.qty)
         IN IF m.symbol = "" \/ price <= 0 \/ qty <= 0 THEN Result(<<>>, 0)
            ELSE Result(<< Event("tick_prices", m.symbol, price, qty,
                                 NoneValue, NoneValue, <<>>, <<>>) >>, 0)

OrderBook(symbol, bids, asks) ==
    Event("order_book_data", symbol, NoneValue, NoneValue, NoneValue,
          NoneValue, bids, asks)

\* "bids=bids[:20], asks=asks[:20]"; a frame without a symbol is taken to
\* be BTCUSDT
BinanceRealtimeCollector_handle_depth(m) ==
    LET symbol == IF m.symbol = "" THEN "BTCUSDT" ELSE m.symbol
    IN IF m.bids = <<>> /\ m.asks = <<>> THEN Result(<<>>, 0)
       ELSE Result(<< OrderBook(symbol, Take(m.bids, 20),
                                Take(m.asks, 20)) >>, 0)

\* "bids=[[float(bid[0]), float(bid[1])] for bid in data.get('bids', [])]":
\* every level of the frame
BinanceWebSocketClient_parse_order_book_data(m) ==
    Result(<< OrderBook(m.symbol, m.bids, m.asks) >>, 0)

\* "bids = bids[:25]; asks = asks[:25]"
RobustKrakenCollector_handle_book_data(m) ==
    IF m.bids = <<>> /\ m.asks = <<>> THEN Result(<<>>, 0)
    ELSE Result(<< OrderBook(m.symbol, Take(m.bids, 25),
                             Take(m.asks, 25)) >>, 0)

\* "bids[:10]", "asks[:10]", "level=10"
BinanceRealtimeCollectorFixed_handle_orderbook(m) ==
    IF m.symbol = "" \/ m.bids = <<>> \/ m.asks = <<>> THEN Result(<<>>, 0)
    ELSE Result(<< OrderBook(m.symbol, Take(m.bids, 10),
                             Take(m.asks, 10)) >>, 0)

\* The handlers a frame of each kind is given to.
HandlersOf(kind) ==
    CASE kind = "ticker" ->
            {"BinanceRealtimeCollector", "BybitRealtimeCollector",
             "BinanceRealtimeCollectorFixed"}
      [] kind = "trade" -> {"BinanceRealtimeCollector"}
      [] OTHER ->
            {"BinanceRealtimeCollector", "BinanceWebSocketClient",
             "RobustKrakenCollector", "BinanceRealtimeCollectorFixed"}

Handle(handler, m) ==
    CASE m.kind = "ticker" /\ handler = "BinanceRealtimeCollector" ->
            BinanceRealtimeCollector_handle_ticker(m)
      [] m.kind = "ticker" /\ handler = "BybitRealtimeCollector" ->
            BybitRealtimeCollector_handle_ticker(m)
      [] m.kind = "ticker" /\ handler = "BinanceRealtimeCollectorFixed" ->
            BinanceRealtimeCollectorFixed_handle_ticker(m)
      [] m.kind = "trade" -> BinanceRealtimeCollector_handle_trade(m)
      [] m.kind = "depth" /\ handler = "BinanceRealtimeCollector" ->
            BinanceRealtimeCollector_handle_depth(m)
      [] m.kind = "depth" /\ handler = "BinanceWebSocketClient" ->
            BinanceWebSocketClient_parse_order_book_data(m)
      [] m.kind = "depth" /\ handler = "RobustKrakenCollector" ->
            RobustKrakenCollector_handle_book_data(m)
      [] OTHER -> BinanceRealtimeCollectorFixed_handle_orderbook(m)

\* Bound of the order book frames: the levels per side.
MaxLevels == 26

\* The levels of one side, best price first; level i is written i.
Levels(n) == [i \in 1..n |-> i]

\* The frames handed to the handlers: a field is missing (NoneValue), does
\* not parse, or has a value; the symbol is "" when the frame has none.
TickerFrames ==
    [kind : {"ticker"}, symbol : {"", "BTCUSDT"},
     price : {NoneValue, Unparsable, 50000}, volume : {NoneValue, 0, 120},
     bid : {NoneValue, 49999}, ask : {NoneValue, 50001},
     qty : {NoneValue}, bids : {<<>>}, asks : {<<>>}]
TradeFrames ==
    [kind : {"trade"}, symbol : {"", "BTCUSDT"},
     price : {NoneValue, Unparsable, 50000}, volume : {NoneValue},
     bid : {NoneValue}, ask : {NoneValue},
     qty : {NoneValue, 3}, bids : {<<>>}, asks : {<<>>}]
DepthFrames ==
    [kind : {"depth"}, symbol : {"", "BTCUSDT"},
     price : {NoneValue}, volume : {NoneValue},
     bid : {NoneValue}, ask : {NoneValue}, qty : {NoneValue},
     bids : {Levels(n) : n \in 0..MaxLevels},
     asks : {Levels(n) : n \in 0..MaxLevels}]

FrmInit ==
    /\ h_pc = "input"
    /\ h_frame \in TickerFrames \cup TradeFrames \cup DepthFrames
    /\ h_handler \in HandlersOf(h_frame.kind)
    /\ h_out = <<>>
    /\ h_again = <<>>

\* the frame is handed to the handler
FrmHandle ==
    /\ h_pc = "input"
    /\ h_out' = Handle(h_handler, h_frame)
    /\ h_pc' = "handled"
    /\ UNCHANGED <<h_handler, h_frame, h_again>>

\* the order book snapshot the handler made is handed to it again
FrmAgain ==
    /\ h_pc = "handled"
    /\ h_frame.kind = "depth"
    /\ h_out.events # <<>>
    /\ h_again' = Handle(h_handler,
                         [h_frame EXCEPT !.bids = h_out.events[1].bids,
                                         !.asks = h_out.events[1].asks])
    /\ h_pc' = "again"
    /\ UNCHANGED <<h_handler, h_frame, h_out>>

FrmNext ==
    \/ FrmHandle /\ UNCHANGED notFrm
    \/ FrmAgain /\ UNCHANGED notFrm

SpecFrameInit ==
    /\ FrmInit /\ SymIdle /\ EhDefault /\ SrIdle /\ HeIdle /\ ColIdle
    /\ OrchIdle /\ CliIdle /\ FacQuiet
    /\ GdIdle
    /\ BcIdle
    /\ CfIdle
    /\ AdIdle
    /\ CrIdle
    /\ LcIdle
    /\ SkIdle
SpecFrame == SpecFrameInit /\ [][FrmNext]_vars

\* No field of the frame is one that float() raises on.
FrameParses(m) == Unparsable \notin {m.price, m.volume, m.bid, m.ask, m.qty}

\* C18 (as claimed): a ticker or trade frame whose required field is
\* missing (the symbol, or the price) produces no stored event and adds
\* exactly one to the error counter; a frame that has its required fields
\* and lacks only optional ones produces its event and adds nothing to the
\* error counter.
C18_RequiredFieldPolicy ==
    (/\ h_pc = "handled"
     /\ h_frame.kind \in {"ticker", "trade"}
     /\ FrameParses(h_frame)) =>
        IF h_frame.symbol = "" \/ h_frame.price = NoneValue
        THEN h_out.events = <<>> /\ h_out.errors = 1
        ELSE (h_frame.kind = "trade" => h_frame.qty # NoneValue)
                => (h_out.events # <<>> /\ h_out.errors = 0)

\* C19 (as claimed): every ticker frame with a symbol and a last price
\* yields exactly two events, a market data event followed by a
\* volume/liquidity event that carries the same 24h volume, with a bid/ask
\* the frame does not carry reported as None; for every realtime collector
\* and every volume value.
C19_TickerYieldsTwoEvents ==
    (/\ h_pc = "handled"
     /\ h_frame.kind = "ticker"
     /\ FrameParses(h_frame)
     /\ h_frame.symbol # "" /\ h_frame.price # NoneValue) =>
        /\ Len(h_out.events) = 2
        /\ h_out.events[1].type = "market_data"
        /\ h_out.events[2].type = "volume_liquidity"
        /\ h_out.events[1].volume = FloatOrZero(h_frame.volume)
        /\ h_out.events[2].volume = h_out.events[1].volume
        /\ h_out.events[1].bid = h_frame.bid
        /\ h_out.events[1].ask = h_frame.ask

\* C20 (as claimed): idempotent truncation. An order book frame with n >= 1
\* levels per side yields a snapshot with exactly min(n, depth) levels per
\* side, depth being the depth configured for the exchange, made of the
\* first levels in their order; and handing the snapshot to the handler
\* again gives the same snapshot.
C20_IdempotentTruncation ==
    (/\ h_pc \in {"handled", "again"}
     /\ h_frame.kind = "depth"
     /\ h_frame.symbol # ""
     /\ h_frame.bids # <<>> /\ Len(h_frame.asks) = Len(h_frame.bids)) =>
        /\ Len(h_out.events) = 1
        /\ h_out.events[1].bids =
              Take(h_frame.bids, ConfiguredDepth(h_handler))
        /\ h_out.events[1].asks =
              Take(h_frame.asks, ConfiguredDepth(h_handler))
        /\ h_pc = "again" => h_again = h_out

(***************************************************************************)
(*   BaseCollector.is_healthy and the health status of the orchestrator    *)
(***************************************************************************)
\* self._health_check_interval = 30  # seconds
health_check_interval == 30
\* "(now - self._stats["last_activity"]).total_seconds() > 300"
ActivityWindow == 300
\* get_health_status: events of the last 300 seconds, uptime above 60
RecentWindow == 300
QuietUptime == 60

\* class CollectorType(Enum)
CollectorType == {"realtime", "futures", "rest", "websocket"}

\* The value is_healthy() returns, and leaves in self._is_healthy, at time t.
is_healthy_NoErrorTest(type, flag, last_health_check, consecutive_errors, last_activity, t) ==
    LET stale == /\ last_health_check # NoneValue
                 /\ t - last_health_check > health_check_interval * 2
        quiet == /\ type = "realtime"
                 /\ last_activity # NoneValue
                 /\ t - last_activity > ActivityWindow
        after_stale == IF stale THEN FALSE ELSE flag
    IN IF quiet THEN FALSE ELSE after_stale

is_healthy_Recomputed(type, flag, last_health_check, consecutive_errors, last_activity, t) ==
    LET stale == /\ last_health_check # NoneValue
                 /\ t - last_health_check > health_check_interval * 2
        quiet == /\ type = "realtime"
                 /\ last_activity # NoneValue
                 /\ t - last_activity > ActivityWindow
    IN ~stale /\ ~(consecutive_errors > ConsecutiveErrorThreshold) /\ ~quiet

is_healthy(type, flag, last_health_check, consecutive_errors, last_activity, t) ==
    LET stale == /\ last_health_check # NoneValue
                 /\ t - last_health_check > health_check_interval * 2
        quiet == /\ type = "realtime"
                 /\ last_activity # NoneValue
                 /\ t - last_activity > ActivityWindow
        after_stale == IF stale THEN FALSE ELSE flag
        after_errors == IF consecutive_errors > ConsecutiveErrorThreshold
                        THEN FALSE ELSE after_stale
    IN IF quiet THEN FALSE ELSE after_errors

\* MonitoringService.get_health_status: the "status" it computes at time t
\* from the events recorded and the time the service was constructed.
health_score(events, start_time, t) ==
    LET recent == {i \in 1..Len(events) : t - events[i].timestamp < RecentWindow}
        recent_events == Cardinality(recent)
        error_events == Cardinality({i \in recent : events[i].error})
        after_errors == IF error_events > 0
                        THEN 100 - Min(error_events * 10, 50)
                        ELSE 100
    IN IF recent_events = 0 /\ t - start_time > QuietUptime
       THEN after_errors - 20
       ELSE after_errors

get_health_status_Uncapped(events, start_time, t) ==
    LET recent == {i \in 1..Len(events) : t - events[i].timestamp < RecentWindow}
        error_events == Cardinality({i \in recent : events[i].error})
        score == 100 - error_events * 10
    IN IF score >= 80 THEN "healthy"
       ELSE IF score >= 50 THEN "degraded"
       ELSE "unhealthy"

get_health_status(events, start_time, t) ==
    LET score == health_score(events, start_time, t)
    IN IF score >= 80 THEN "healthy"
       ELSE IF score >= 50 THEN "degraded"
       ELSE "unhealthy"

\* Bounds: the clock moves in steps of five health check intervals, up to
\* BcMaxTicks of them; the errors counted in a row; the events recorded.
BcMaxTicks == 3
BcMaxErrors == 11
MaxMsEvents == 3

BcStep == 5 * health_check_interval

\* BaseCollector(exchange, collector_type, ...) and MonitoringService(), both
\* constructed at time 0
BcInit ==
    /\ now = 0
    /\ bc_type \in CollectorType
    /\ bc_consecutive_errors = 0
    /\ bc_last_activity = NoneValue
    /\ bc_last_health_check = NoneValue
    /\ bc_is_healthy = TRUE
    /\ bc_result = "none"
    /\ hl_pc = "idle"
    /\ ms_events = <<>>
    /\ ms_status = ""

\* time passes
BcTick ==
    /\ now < BcMaxTicks * BcStep
    /\ now' = now + BcStep
    /\ hl_pc' = "idle"
    /\ UNCHANGED <<bc_type, bc_consecutive_errors, bc_last_activity,
                   bc_last_health_check, bc_is_healthy, bc_result, ms_events,
                   ms_status>>

\* start(duration_seconds): _start_collection returns, or raises
start ==
    \E raised \in BOOLEAN :
        /\ raised => bc_consecutive_errors < BcMaxErrors
        /\ bc_last_activity' = now
        /\ bc_is_healthy' = TRUE
        /\ bc_consecutive_errors' =
              IF raised THEN bc_consecutive_errors + 1
              ELSE bc_consecutive_errors
        /\ hl_pc' = "idle"
        /\ UNCHANGED <<now, bc_type, bc_last_health_check, bc_result,
                       ms_events, ms_status>>

\* record_message(stored)
record_message ==
    \E stored \in BOOLEAN :
        /\ ~stored => bc_consecutive_errors < BcMaxErrors
        /\ bc_consecutive_errors' =
              IF stored THEN 0 ELSE bc_consecutive_errors + 1
        /\ bc_last_activity' = now
        /\ bc_last_health_check' = now
        /\ hl_pc' = "idle"
        /\ UNCHANGED <<now, bc_type, bc_is_healthy, bc_result, ms_events,
                       ms_status>>

\* BaseCollector.handle_error(error, context)
BaseCollector_handle_error ==
    /\ bc_consecutive_errors < BcMaxErrors
    /\ bc_consecutive_errors' = bc_consecutive_errors + 1
    /\ hl_pc' = "idle"
    /\ UNCHANGED <<now, bc_type, bc_last_activity, bc_last_health_check,
                   bc_is_healthy, bc_result, ms_events, ms_status>>

\* one call of is_healthy()
IsHealthyCall ==
    LET value == is_healthy(bc_type, bc_is_healthy, bc_last_health_check,
                            bc_consecutive_errors, bc_last_activity, now)
    IN /\ bc_is_healthy' = value
       /\ bc_result' = IF value THEN "true" ELSE "false"
       /\ hl_pc' = "checked"
       /\ UNCHANGED <<now, bc_type, bc_consecutive_errors, bc_last_activity,
                      bc_last_health_check, ms_events, ms_status>>

\* MonitoringService.record_event(event, data): the event is an error event
\* when its name contains "error"
record_event_upto(bound) ==
    \E error \in BOOLEAN :
        /\ Len(ms_events) < bound
        /\ ms_events' = Append(ms_events,
                               [timestamp |-> now, error |-> error])
        /\ hl_pc' = "idle"
        /\ UNCHANGED <<now, bc_type, bc_consecutive_errors, bc_last_activity,
                       bc_last_health_check, bc_is_healthy, bc_result,
                       ms_status>>

record_event == record_event_upto(MaxMsEvents)

\* SimpleOptimizedOrchestrator.get_status(): its "health_status" is
\* self.monitoring.get_health_status()
get_status ==
    /\ ms_status' = get_health_status(ms_events, 0, now)
    /\ hl_pc' = "reported"
    /\ UNCHANGED <<now, bc_type, bc_consecutive_errors, bc_last_activity,
                   bc_last_health_check, bc_is_healthy, bc_result, ms_events>>

\* The collector by itself.
HealthNext ==
    \/ BcTick /\ UNCHANGED notHealth
    \/ start /\ UNCHANGED notHealth
    \/ record_message /\ UNCHANGED notHealth
    \/ BaseCollector_handle_error /\ UNCHANGED notHealth
    \/ IsHealthyCall /\ UNCHANGED notHealth

\* The orchestrator's status while the collector records its messages.
StatusNext ==
    \/ BcTick /\ UNCHANGED notHealth
    \/ record_message /\ UNCHANGED notHealth
    \/ record_event /\ UNCHANGED notHealth
    \/ get_status /\ UNCHANGED notHealth

SpecHealthInit ==
    /\ BcInit /\ SymIdle /\ EhDefault /\ SrIdle /\ HeIdle /\ ColQuiet
    /\ OrchIdle /\ RestIdle /\ GdIdle
    /\ CfIdle
    /\ AdIdle
    /\ CrIdle
    /\ LcIdle
    /\ SkIdle
SpecHealth == SpecHealthInit /\ [][HealthNext]_vars
SpecStatusInit ==
    /\ BcInit /\ SymIdle /\ EhDefault /\ SrIdle /\ HeIdle /\ ColQuiet
    /\ OrchIdle /\ RestIdle /\ GdIdle
    /\ CfIdle
    /\ AdIdle
    /\ CrIdle
    /\ LcIdle
    /\ SkIdle
SpecStatus == SpecStatusInit /\ [][StatusNext]_vars

\* The monitoring service by itself, with enough events for the error
\* penalty to reach its cap.
MaxMonitorEvents == 6

MonitorNext ==
    \/ BcTick /\ UNCHANGED notHealth
    \/ record_event_upto(MaxMonitorEvents) /\ UNCHANGED notHealth
    \/ get_status /\ UNCHANGED notHealth

SpecMonitorInit ==
    /\ BcInit /\ bc_type = "realtime"
    /\ SymIdle /\ EhDefault /\ SrIdle /\ HeIdle /\ ColQuiet
    /\ OrchIdle /\ RestIdle /\ GdIdle /\ CfIdle /\ AdIdle
    /\ CrIdle
    /\ LcIdle
    /\ SkIdle
SpecMonitor == SpecMonitorInit /\ [][MonitorNext]_vars

\* C22 (as claimed): a collector that is not a realtime one and whose
\* consecutive_errors is at most 10 gets true from is_healthy(), however
\* long ago its last activity and its last record_message call were.
C22_BatchExemptFromActivity ==
    (/\ hl_pc = "checked"
     /\ bc_type # "realtime"
     /\ bc_consecutive_errors <= ConsecutiveErrorThreshold)
        => bc_result = "true"

\* C23: is_healthy() returns false whenever consecutive_errors is greater
\* than 10, and for a realtime collector whenever more than 300 seconds
\* have passed since last_activity.
C23_UnhealthyWhenErrorsOrQuiet ==
    (/\ hl_pc = "checked"
     /\ \/ bc_consecutive_errors > ConsecutiveErrorThreshold
        \/ /\ bc_type = "realtime"
           /\ bc_last_activity # NoneValue
           /\ now - bc_last_activity > ActivityWindow)
        => bc_result = "false"

\* C23 witness: a futures collector with 11 errors in a row, the last of
\* them just recorded, is reported unhealthy.
C23_Witness ==
    /\ hl_pc = "checked"
    /\ bc_type = "futures"
    /\ bc_consecutive_errors = ConsecutiveErrorThreshold + 1
    /\ bc_last_health_check = now
    /\ bc_result = "false"

\* C33: the health flag is sticky. Once is_healthy() has returned false the
\* flag self._is_healthy is False; while it is False every is_healthy()
\* call returns false, also after record_message(stored=True) has set
\* consecutive_errors to 0 and refreshed last_activity; and only start()
\* makes the flag True again.
C33_HealthFlagSticky ==
    [][/\ (hl_pc' = "checked" /\ bc_result' = "false") => ~bc_is_healthy'
       /\ (hl_pc' = "checked" /\ ~bc_is_healthy) => bc_result' = "false"
       /\ (~bc_is_healthy /\ bc_is_healthy') => start]_vars

\* C33 witness: is_healthy() returns false right after a stored message:
\* no error in a row, activity and health check refreshed this instant.
C33_Witness ==
    /\ hl_pc = "checked" /\ bc_result = "false"
    /\ bc_consecutive_errors = 0
    /\ bc_last_activity = now /\ bc_last_health_check = now

\* C38: whatever events were recorded and whatever the time, the
\* health_score get_health_status computes lies between 50 and 100, and the
\* status it reports is "healthy" or "degraded", never "unhealthy".
C38_HealthScoreFloor ==
    /\ health_score(ms_events, 0, now) \in 50..100
    /\ hl_pc = "reported" => ms_status \in {"healthy", "degraded"}

\* C38 witness: six error events of the last five minutes, score 50,
\* reported as "degraded".
C38_Witness ==
    /\ hl_pc = "reported" /\ ms_status = "degraded"
    /\ Len(ms_events) = MaxMonitorEvents
    /\ \A i \in 1..Len(ms_events) :
          ms_events[i].error /\ now - ms_events[i].timestamp < RecentWindow
    /\ health_score(ms_events, 0, now) = 50

\* C24 (as claimed): the health status the orchestrator reports is not
\* "healthy" whenever the collector's own predicate reports it unhealthy.
C24_StatusReflectsCollectors ==
    (/\ hl_pc = "reported"
     /\ ~is_healthy(bc_type, bc_is_healthy, bc_last_health_check,
                    bc_consecutive_errors, bc_last_activity, now))
        => ms_status # "healthy"

(***************************************************************************)
(*                     CollectorFactory.create_collector                   *)
(***************************************************************************)
\* _register_builtin_collectors: a realtime and a futures collector for each
\* of the five exchanges
BuiltinRegistry == (DOMAIN RealtimeRegistry) \X {"realtime", "futures"}

\* The exchanges of the calls: the five of the registry and one more.
CfExchanges == (DOMAIN RealtimeRegistry) \cup {"coinbase"}

\* The configurations: "enabled" is True for every exchange of
\* EXCHANGE_CONFIGS as shipped; binance may be switched off and an entry
\* for one more exchange added.
CfConfigs == {((DOMAIN RealtimeRegistry) \ off) \cup on :
                 off \in SUBSET {"binance"}, on \in SUBSET {"coinbase"}}

\* Bound: the collectors registered after construction.
MaxRegistered == 2

\* The exchanges of those registrations: one of the registry, one new.
CfRegisterExchanges == {"binance", "coinbase"}

\* What create_collector does: "None" for return None, "collector" for the
\* adapter returned, "raised" for an exception that leaves the call.
create_collector_Propagates(enabled, registry, exchange, collector_type, ctor) ==
    IF exchange \notin enabled THEN "None"
    ELSE IF ~\E p \in registry : p[1] = exchange THEN "None"
    ELSE IF <<exchange, collector_type>> \notin registry THEN "None"
    ELSE IF ctor = "raises" THEN "raised"
    ELSE "collector"

create_collector(enabled, registry, exchange, collector_type, ctor) ==
    IF exchange \notin enabled THEN "None"
    ELSE IF ~\E p \in registry : p[1] = exchange THEN "None"
    ELSE IF <<exchange, collector_type>> \notin registry THEN "None"
    ELSE IF ctor = "raises" THEN "None"
    ELSE "collector"

\* CollectorFactory()
CfInit ==
    /\ cf_enabled \in CfConfigs
    /\ cf_registry = BuiltinRegistry
    /\ cf_pc = "idle"
    /\ cf_exchange = "" /\ cf_type = "" /\ cf_ctor = "" /\ cf_result = ""

\* register_collector(exchange, collector_type, collector_class)
register_collector ==
    \E e \in CfRegisterExchanges, t \in CollectorType :
        /\ Cardinality(cf_registry \ BuiltinRegistry) < MaxRegistered
        /\ cf_registry' = cf_registry \cup {<<e, t>>}
        /\ cf_pc' = "idle"
        /\ UNCHANGED <<cf_enabled, cf_exchange, cf_type, cf_ctor, cf_result>>

\* create_collector(exchange, collector_type, **kwargs)
CreateCollectorCall ==
    \E e \in CfExchanges, t \in CollectorType, ctor \in {"ok", "raises"} :
        /\ cf_exchange' = e
        /\ cf_type' = t
        /\ cf_ctor' = ctor
        /\ cf_result' = create_collector(cf_enabled, cf_registry, e, t, ctor)
        /\ cf_pc' = "returned"
        /\ UNCHANGED <<cf_enabled, cf_registry>>

CreateNext ==
    \/ register_collector /\ UNCHANGED notCreate
    \/ CreateCollectorCall /\ UNCHANGED notCreate

SpecCreateInit ==
    /\ CfInit /\ SymIdle /\ EhDefault /\ SrIdle /\ HeIdle /\ ColIdle
    /\ OrchIdle /\ RestIdle /\ GdIdle /\ BcIdle
    /\ AdIdle
    /\ CrIdle
    /\ LcIdle
    /\ SkIdle
SpecCreate == SpecCreateInit /\ [][CreateNext]_vars

\* C28: create_collector returns None and does not raise when the exchange
\* is disabled in the configuration, when no collector is registered for
\* the exchange, when the (exchange, type) pair is not registered, or when
\* the collector constructor raises; and the call leaves the registry as it
\* was.
C28_CreateReturnsNone ==
    [][cf_pc' = "returned" =>
          /\ (\/ cf_exchange' \notin cf_enabled
              \/ ~\E p \in cf_registry : p[1] = cf_exchange'
              \/ <<cf_exchange', cf_type'>> \notin cf_registry
              \/ cf_ctor' = "raises") => cf_result' = "None"
          /\ cf_registry' = cf_registry]_vars

\* C28 witness: the constructor of an enabled, registered collector raised
\* and the call returned None.
C28_Witness ==
    /\ cf_pc = "returned"
    /\ cf_exchange \in cf_enabled
    /\ <<cf_exchange, cf_type>> \in cf_registry
    /\ cf_ctor = "raises"
    /\ cf_result = "None"

(***************************************************************************)
(*            ADAPTERS: THE SYMBOL OF THE EVENTS THEY HAND OVER            *)
(***************************************************************************)
\* Bound of the events kept in the sink.
MaxSink == 2

\* str.replace('_', '') on the symbols the Gate frames carry.
replace_underscore(s) ==
    CASE s = "BTC_USDT" -> "BTCUSDT"
      [] s = "BTC_USDC" -> "BTCUSDC"
      [] s = "BTC_USD1" -> "BTCUSD1"
      [] s = "BTC_GUSD" -> "BTCGUSD"
      [] s = "ETH_USDT" -> "ETHUSDT"
      [] OTHER -> s

\* The exchange-native symbols a frame of the exchange can carry: those of
\* its table and one the table does not have.
NativeSymbols(exchange) ==
    {EXCHANGE_SYMBOLS[exchange][i][2] :
        i \in 1..Len(EXCHANGE_SYMBOLS[exchange])}
    \cup (CASE exchange = "okx" -> {"ETH-USDT"}
            [] exchange = "kraken" -> {"ETH/USDT"}
            [] exchange = "gate" -> {"ETH_USDT"})

SinkEvent(data_type, exchange, symbol, native) ==
    [data_type |-> data_type, exchange |-> exchange, symbol |-> symbol,
     native |-> native]

\* OKXRealtimeCollector._handle_tickers for one element of data_list:
\* nothing when last <= 0, else a MarketData and, when vol24 > 0, a
\* VolumeLiquidity, both with symbol = instId.
OKX_handle_tickers(inst_id, last_positive, vol24_positive) ==
    IF ~last_positive THEN <<>>
    ELSE <<SinkEvent("market_data", "okx", inst_id, inst_id)>>
         \o (IF vol24_positive
             THEN <<SinkEvent("volume_liquidity", "okx", inst_id, inst_id)>>
             ELSE <<>>)

\* RobustKrakenCollector._handle_ticker_data: nothing when price <= 0, else
\* a MarketData and, when volume_24h > 0, a VolumeLiquidity, both with
\* symbol = pair.
Kraken_handle_ticker_data(pair, price_positive, volume_24h_positive) ==
    IF ~price_positive THEN <<>>
    ELSE <<SinkEvent("market_data", "kraken", pair, pair)>>
         \o (IF volume_24h_positive
             THEN <<SinkEvent("volume_liquidity", "kraken", pair, pair)>>
             ELSE <<>>)

\* GateWebSocketClient._parse_ticker_data
Gate_parse_ticker_data(currency_pair) ==
    <<SinkEvent("market_data", "gate",
            get_standard_symbol("gate", currency_pair), currency_pair)>>

\* GateWebSocketClient._parse_order_book_data
Gate_parse_order_book_data(s) ==
    <<SinkEvent("order_book_data", "gate", replace_underscore(s), s)>>

\* GateWebSocketClient._parse_trade_data: None for an empty list, else the
\* first trade.
Gate_parse_trade_data(has_trade, currency_pair) ==
    IF ~has_trade THEN <<>>
    ELSE <<SinkEvent("tick_prices", "gate", replace_underscore(currency_pair),
                 currency_pair)>>

AdInit == AdIdle

\* One handler run: the events it builds go to the sink.
HandOver(adapter, native, events, translations) ==
    /\ Len(ad_sink) + Len(events) <= MaxSink
    /\ ad_pc' = "handled"
    /\ ad_adapter' = adapter
    /\ ad_native' = native
    /\ ad_sink' = ad_sink \o events
    /\ ad_translations' = translations

OKXHandleTickers ==
    \E inst_id \in NativeSymbols("okx"), last_positive \in BOOLEAN,
       vol24_positive \in BOOLEAN :
        HandOver("OKXRealtimeCollector._handle_tickers", inst_id,
                 OKX_handle_tickers(inst_id, last_positive, vol24_positive),
                 0)

KrakenHandleTickerData ==
    \E pair \in NativeSymbols("kraken"), price_positive \in BOOLEAN,
       volume_24h_positive \in BOOLEAN :
        HandOver("RobustKrakenCollector._handle_ticker_data", pair,
                 Kraken_handle_ticker_data(pair, price_positive,
                                           volume_24h_positive),
                 0)

GateParseTickerData ==
    \E currency_pair \in NativeSymbols("gate") :
        HandOver("GateWebSocketClient._parse_ticker_data", currency_pair,
                 Gate_parse_ticker_data(currency_pair), 1)

GateParseOrderBookData ==
    \E s \in NativeSymbols("gate") :
        HandOver("GateWebSocketClient._parse_order_book_data", s,
                 Gate_parse_order_book_data(s), 0)

GateParseTradeData ==
    \E currency_pair \in NativeSymbols("gate"), has_trade \in BOOLEAN :
        HandOver("GateWebSocketClient._parse_trade_data", currency_pair,
                 Gate_parse_trade_data(has_trade, currency_pair), 0)

AdapterNext ==
    \/ OKXHandleTickers /\ UNCHANGED notAdapter
    \/ KrakenHandleTickerData /\ UNCHANGED notAdapter
    \/ GateParseTickerData /\ UNCHANGED notAdapter
    \/ GateParseOrderBookData /\ UNCHANGED notAdapter
    \/ GateParseTradeData /\ UNCHANGED notAdapter

SpecAdapterInit ==
    /\ AdInit
    /\ SymIdle /\ EhDefault /\ SrIdle /\ HeIdle /\ ColIdle
    /\ OrchIdle /\ RestIdle /\ GdIdle /\ BcIdle /\ CfIdle
    /\ CrIdle
    /\ LcIdle
    /\ SkIdle
SpecAdapter == SpecAdapterInit /\ [][AdapterNext]_vars

\* C21: every event handed to the sink carries the canonical symbol. For
\* every event in the sink whose frame symbol is a native symbol of its
\* exchange's table, the event's symbol is the canonical symbol of that
\* native symbol, which is one of STANDARD_SYMBOLS (never the native
\* string); and a handler run that handed events over applied the
\* native-to-canonical translation, get_standard_symbol, exactly once.
C21_CanonicalSymbolOnce ==
    /\ \A i \in 1..Len(ad_sink) :
          DictHas(REVERSE_MAPPINGS[ad_sink[i].exchange], ad_sink[i].native)
            => /\ ad_sink[i].symbol =
                    get_standard_symbol(ad_sink[i].exchange,
                                        ad_sink[i].native)
               /\ ad_sink[i].symbol \in Range(STANDARD_SYMBOLS)
    /\ (ad_pc = "handled" /\ ad_sink # <<>>) => ad_translations = 1

(***************************************************************************)
(*          _connect_with_retry OF THE FIXED REALTIME COLLECTORS           *)
(***************************************************************************)
\* Bound of self.max_retries (the constructors set 5).
MaxCrRetries == 5

FixedCollectorNames == {"binance", "bybit", "okx", "gate"}

\* BinanceRealtimeCollectorFixed tries its ws_endpoints in turn inside one
\* attempt and has "return None" where the last of them fails; the others
\* connect to one URL and let the exception reach the outer except clause.
HasEndpointList(collector) == collector = "binance"

\* What the connection step of one attempt can come to.
ConnectOutcomes(collector) ==
    {"ws", "raised"} \cup
    (IF HasEndpointList(collector) THEN {"all_endpoints_failed"} ELSE {})

CrInit ==
    /\ cr_pc = "idle"
    /\ cr_collector \in FixedCollectorNames
    /\ cr_max_retries \in 1..MaxCrRetries
    /\ cr_attempt = 0 /\ cr_waits = 0 /\ cr_result = ""

\* _connect_with_retry() is called: "for attempt in range(self.max_retries)"
CrCall ==
    /\ cr_pc = "idle"
    /\ cr_attempt' = 0
    /\ cr_pc' = "test"
    /\ UNCHANGED <<cr_collector, cr_max_retries, cr_waits, cr_result>>

\* "if not await self._test_connectivity()": on failure sleep and continue,
\* or return None in the last attempt
CrTestConnectivity ==
    /\ cr_pc = "test"
    /\ \E reachable \in BOOLEAN :
         IF reachable
         THEN /\ cr_pc' = "connect"
              /\ UNCHANGED <<cr_attempt, cr_waits, cr_result>>
         ELSE IF cr_attempt < cr_max_retries - 1
         THEN /\ cr_waits' = cr_waits + 1
              /\ cr_attempt' = cr_attempt + 1
              /\ cr_pc' = "test"
              /\ UNCHANGED cr_result
         ELSE /\ cr_result' = "None"
              /\ cr_pc' = "returned"
              /\ UNCHANGED <<cr_attempt, cr_waits>>
    /\ UNCHANGED <<cr_collector, cr_max_retries>>

\* the SSL context and websockets.connect: "return ws"; an exception, which
\* the outer except clause takes (sleep and next attempt, or return None in
\* the last attempt); or, for Binance, the last endpoint failed: return None
CrConnect ==
    /\ cr_pc = "connect"
    /\ \E outcome \in ConnectOutcomes(cr_collector) :
         CASE outcome = "ws" ->
                /\ cr_result' = "ws"
                /\ cr_pc' = "returned"
                /\ UNCHANGED <<cr_attempt, cr_waits>>
           [] outcome = "all_endpoints_failed" ->
                /\ cr_result' = "None"
                /\ cr_pc' = "returned"
                /\ UNCHANGED <<cr_attempt, cr_waits>>
           [] outcome = "raised" ->
                IF cr_attempt < cr_max_retries - 1
                THEN /\ cr_waits' = cr_waits + 1
                     /\ cr_attempt' = cr_attempt + 1
                     /\ cr_pc' = "test"
                     /\ UNCHANGED cr_result
                ELSE /\ cr_result' = "None"
                     /\ cr_pc' = "returned"
                     /\ UNCHANGED <<cr_attempt, cr_waits>>
    /\ UNCHANGED <<cr_collector, cr_max_retries>>

ConnectNext ==
    \/ CrCall /\ UNCHANGED notConnect
    \/ CrTestConnectivity /\ UNCHANGED notConnect
    \/ CrConnect /\ UNCHANGED notConnect

SpecConnectInit ==
    /\ CrInit
    /\ SymIdle /\ EhDefault /\ SrIdle /\ HeIdle /\ ColIdle
    /\ OrchIdle /\ RestIdle /\ GdIdle /\ BcIdle /\ CfIdle /\ AdIdle
    /\ LcIdle
    /\ SkIdle
SpecConnect == SpecConnectInit /\ [][ConnectNext]_vars

\* C40 (as claimed): for every fixed realtime collector, when
\* _connect_with_retry has returned None it has made max_retries connection
\* attempts, and has waited after each failed attempt but the last.
C40_NoneOnlyAfterAllAttempts ==
    (cr_pc = "returned" /\ cr_result = "None")
        => /\ cr_attempt + 1 = cr_max_retries
           /\ cr_waits = cr_max_retries - 1

(***************************************************************************)
(*        BaseCollector / CollectorAdapter: STATUS AND COUNTERS            *)
(***************************************************************************)
\* Bound of the counters of self._stats.
LcMaxCount == 4

\* record_message(stored) on the counters
stats_record_message_ResetsErrors(stats, stored) ==
    IF stored
    THEN [stats EXCEPT !.messages_received = @ + 1,
                       !.messages_stored = @ + 1,
                       !.errors = 0]
    ELSE [stats EXCEPT !.messages_received = @ + 1,
                       !.errors = @ + 1,
                       !.consecutive_errors = @ + 1]

stats_record_message(stats, stored) ==
    IF stored
    THEN [stats EXCEPT !.messages_received = @ + 1,
                       !.messages_stored = @ + 1,
                       !.consecutive_errors = 0]
    ELSE [stats EXCEPT !.messages_received = @ + 1,
                       !.errors = @ + 1,
                       !.consecutive_errors = @ + 1]

\* handle_error(error, context), and the except clause of start(), on the
\* counters
stats_count_error(stats) ==
    [stats EXCEPT !.errors = @ + 1, !.consecutive_errors = @ + 1]

\* The counters stay within the bound after n more messages and e more
\* errors.
LcRoom(n, e) ==
    /\ lc_stats.messages_received + n <= LcMaxCount
    /\ lc_stats.errors + e <= LcMaxCount
    /\ lc_stats.consecutive_errors + e <= LcMaxCount

\* What initialize() can meet: mongo.connect() returns False (it catches its
\* own exceptions); _initialize_resources() returns True or False; or an
\* exception is raised inside the try.
InitializeOutcomes ==
    {"connect_false", "resources_true", "resources_false", "raised"}

initialize_status(outcome) ==
    CASE outcome = "connect_false" -> "starting"
      [] outcome = "resources_true" -> "stopped"
      [] outcome = "resources_false" -> "error"
      [] outcome = "raised" -> "error"

initialize_result(outcome) ==
    IF outcome = "resources_true" THEN "true" ELSE "false"

\* CollectorAdapter(existing_collector, ...)
LcInit == LcIdle

\* initialize()
initialize ==
    /\ ~lc_collecting
    /\ \E outcome \in InitializeOutcomes :
         /\ lc_status' = initialize_status(outcome)
         /\ lc_result' = initialize_result(outcome)
    /\ lc_pc' = "initialize"
    /\ UNCHANGED <<lc_stats, lc_collecting, lc_via>>

\* start(duration_seconds) up to the await of the wrapped collect method:
\* STARTING, then _start_collection calls existing_collector.collect, whose
\* wrapper sets RUNNING and awaits the original method. An existing
\* collector without a collect method: AttributeError, taken by the except
\* clause of start().
CollectorAdapter_start ==
    /\ ~lc_collecting
    /\ \E has_collect \in BOOLEAN :
         IF has_collect
         THEN /\ lc_status' = "running"
              /\ lc_collecting' = TRUE
              /\ lc_via' = "start"
              /\ lc_pc' = "collecting"
              /\ UNCHANGED lc_stats
         ELSE /\ LcRoom(0, 1)
              /\ lc_status' = "error"
              /\ lc_stats' = stats_count_error(lc_stats)
              /\ lc_pc' = "start"
              /\ UNCHANGED <<lc_collecting, lc_via>>
    /\ UNCHANGED lc_result

\* existing_collector.collect(...) awaited by a caller of its own (the
\* attribute is the wrapper): RUNNING, then the original method is awaited
wrapped_method_called ==
    /\ ~lc_collecting
    /\ lc_status' = "running"
    /\ lc_collecting' = TRUE
    /\ lc_via' = "direct"
    /\ lc_pc' = "collecting"
    /\ UNCHANGED <<lc_stats, lc_result>>

\* the original collect method returns: COMPLETED and
\* record_message(stored=True) in the wrapper; under start() control comes
\* back to "self._status = CollectorStatus.RUNNING"
wrapped_method_returns ==
    /\ lc_collecting
    /\ LcRoom(1, 0)
    /\ lc_stats' = stats_record_message(lc_stats, TRUE)
    /\ lc_status' = IF lc_via = "start" THEN "running" ELSE "completed"
    /\ lc_collecting' = FALSE
    /\ lc_pc' = "collected"
    /\ UNCHANGED <<lc_via, lc_result>>

\* the original collect method raises: ERROR, record_message(stored=False),
\* handle_error and "raise" in the wrapper; under start() the exception
\* goes through _start_collection to the except clause of start()
wrapped_method_raises ==
    /\ lc_collecting
    /\ LcRoom(1, IF lc_via = "start" THEN 3 ELSE 2)
    /\ lc_stats' =
         LET in_wrapper ==
                stats_count_error(stats_record_message(lc_stats, FALSE))
         IN IF lc_via = "start" THEN stats_count_error(in_wrapper)
            ELSE in_wrapper
    /\ lc_status' = "error"
    /\ lc_collecting' = FALSE
    /\ lc_pc' = "collect_failed"
    /\ UNCHANGED <<lc_via, lc_result>>

\* stop(): STOPPING, _stop_collection (the adapter's catches everything),
\* STOPPED
stop ==
    /\ lc_status' = "stopped"
    /\ lc_pc' = "stop"
    /\ UNCHANGED <<lc_stats, lc_collecting, lc_via, lc_result>>

\* cleanup(): stop() first if the status is RUNNING
cleanup ==
    /\ lc_status' = IF lc_status = "running" THEN "stopped" ELSE lc_status
    /\ lc_pc' = "cleanup"
    /\ UNCHANGED <<lc_stats, lc_collecting, lc_via, lc_result>>

\* record_message(stored) called by the owner of the adapter
CollectorAdapter_record_message ==
    \E stored \in BOOLEAN :
        /\ LcRoom(1, IF stored THEN 0 ELSE 1)
        /\ lc_stats' = stats_record_message(lc_stats, stored)
        /\ lc_pc' = "record_message"
        /\ UNCHANGED <<lc_status, lc_collecting, lc_via, lc_result>>

\* handle_error(error, context) called by the owner of the adapter
CollectorAdapter_handle_error ==
    /\ LcRoom(0, 1)
    /\ lc_stats' = stats_count_error(lc_stats)
    /\ lc_pc' = "handle_error"
    /\ UNCHANGED <<lc_status, lc_collecting, lc_via, lc_result>>

LifeNext ==
    \/ initialize /\ UNCHANGED notLife
    \/ CollectorAdapter_start /\ UNCHANGED notLife
    \/ wrapped_method_called /\ UNCHANGED notLife
    \/ wrapped_method_returns /\ UNCHANGED notLife
    \/ wrapped_method_raises /\ UNCHANGED notLife
    \/ stop /\ UNCHANGED notLife
    \/ cleanup /\ UNCHANGED notLife
    \/ CollectorAdapter_record_message /\ UNCHANGED notLife
    \/ CollectorAdapter_handle_error /\ UNCHANGED notLife

SpecLifeInit ==
    /\ LcInit
    /\ SymIdle /\ EhDefault /\ SrIdle /\ HeIdle /\ ColIdle
    /\ OrchIdle /\ RestIdle /\ GdIdle /\ BcIdle /\ CfIdle /\ AdIdle
    /\ CrIdle
    /\ SkIdle
SpecLife == SpecLifeInit /\ [][LifeNext]_vars

\* C32: the counters messages_received, messages_stored and errors never
\* decrease, whatever sequence of initialize, start, stop, cleanup,
\* record_message and handle_error calls is made.
C32_CountersMonotone ==
    [][/\ lc_stats'.messages_received >= lc_stats.messages_received
       /\ lc_stats'.messages_stored >= lc_stats.messages_stored
       /\ lc_stats'.errors >= lc_stats.errors]_vars

\* C32 witness: errors were counted, then a stored message was recorded and
\* consecutive_errors went back to 0, and then the collector was stopped.
C32_Witness ==
    /\ lc_pc = "stop"
    /\ lc_stats.errors >= 2
    /\ lc_stats.messages_stored >= 1
    /\ lc_stats.consecutive_errors = 0

\* C34 (as claimed): one exception raised by the wrapped collect method
\* while start() is running increases the adapter's errors counter and its
\* consecutive_errors counter by exactly one each.
C34_OneErrorPerException ==
    [][(lc_collecting /\ lc_via = "start" /\ lc_pc' = "collect_failed")
          => /\ lc_stats'.errors = lc_stats.errors + 1
             /\ lc_stats'.consecutive_errors =
                    lc_stats.consecutive_errors + 1]_vars

\* C35 (as claimed): when the wrapped collect coroutine returns normally
\* the status becomes COMPLETED, also under start(); a COMPLETED status is
\* left only by a stop() or start() call (initialize() also writes the
\* status and is let through here); and the status is RUNNING only while
\* the collect coroutine is in progress.
C35_CompletedAfterCollect ==
    [][/\ lc_pc' = "collected" => lc_status' = "completed"
       /\ (lc_status = "completed" /\ lc_status' # "completed")
             => lc_pc' \in {"stop", "start", "collecting", "initialize"}
       /\ lc_status' = "running" => lc_collecting']_vars

\* C36 (as claimed): whenever initialize() returns false the status is
\* ERROR, and whenever it returns true the status is STOPPED.
C36_InitializeStatus ==
    lc_pc = "initialize" =>
        /\ lc_result = "false" => lc_status = "error"
        /\ lc_result = "true" => lc_status = "stopped"

(***************************************************************************)
(*             THE STORED COUNTER AND WHAT THE SINK REPORTED               *)
(***************************************************************************)
\* Bound of the frames handled in a run.
MaxSinkFrames == 3

\* SimpleMongoDBCollector.store_message: False without a client, False when
\* anything inside its try raises, else True.
store_message(connected, raises) ==
    IF ~connected THEN FALSE
    ELSE IF raises THEN FALSE
    ELSE TRUE

\* The number of TRUE entries of a sequence of store_message returns.
RECURSIVE CountTrue(_)
CountTrue(returns) ==
    IF returns = <<>> THEN 0
    ELSE (IF Head(returns) THEN 1 ELSE 0) + CountTrue(Tail(returns))

\* BinanceRealtimeCollector(): mongo.connect() has returned True or False
\* (collect() does not look at it)
SkInit ==
    /\ sk_connected \in BOOLEAN
    /\ sk_frame = <<>> /\ sk_frames = 0
    /\ sk_stored = 0 /\ sk_errors = 0 /\ sk_true = 0

\* _handle_message(raw) for one ticker or trade frame: the handler awaits
\* store_message for every event it builds and adds one to stats["stored"]
\* after each call.
SkHandleMessage ==
    /\ sk_frames < MaxSinkFrames
    /\ \E m \in TickerFrames \cup TradeFrames :
         LET result == Handle("BinanceRealtimeCollector", m)
         IN \E raises \in [1..Len(result.events) -> BOOLEAN] :
              LET returns == [i \in 1..Len(result.events) |->
                                 store_message(sk_connected, raises[i])]
              IN /\ sk_frame' = m
                 /\ sk_stored' = sk_stored + result.stored
                 /\ sk_errors' = sk_errors + result.errors
                 /\ sk_true' = sk_true + CountTrue(returns)
    /\ sk_frames' = sk_frames + 1
    /\ UNCHANGED sk_connected

SinkNext == SkHandleMessage /\ UNCHANGED notSink

SpecSinkInit ==
    /\ SkInit
    /\ SymIdle /\ EhDefault /\ SrIdle /\ HeIdle /\ ColIdle
    /\ OrchIdle /\ RestIdle /\ GdIdle /\ BcIdle /\ CfIdle /\ AdIdle
    /\ CrIdle /\ LcIdle
SpecSink == SpecSinkInit /\ [][SinkNext]_vars

\* C37 (as claimed): after any sequence of frames the collector's
\* stats['stored'] equals the number of store_message calls that returned
\* true.
C37_StoredMeansStored ==
    sk_stored = sk_true

(***************************************************************************)
(*                    Specification of the symbol mapper                   *)
(***************************************************************************)
SymNext ==
    \/ SymToNative /\ UNCHANGED notSym
    \/ SymToStandard /\ UNCHANGED notSym
    \/ SymListToNative /\ UNCHANGED notSym
    \/ SymDirect /\ UNCHANGED notSym

SpecSymInit ==
    /\ SymInit
    /\ EhDefault /\ SrIdle /\ HeIdle /\ ColIdle /\ OrchIdle /\ RestIdle
    /\ GdIdle
    /\ BcIdle
    /\ CfIdle
    /\ AdIdle
    /\ CrIdle
    /\ LcIdle
    /\ SkIdle
SpecSym == SpecSymInit /\ [][SymNext]_vars

====
